---- MODULE Spec2Model ----
(***************************************************************************)
(* Page discovery of the accessibility-scan action (src/page-discovery.js) *)
(* as state machines.  Strings are sequences of one-character strings;     *)
(* a JavaScript value is a record [t, s] whose tag t says what it is.      *)
(***************************************************************************)
EXTENDS Integers, Sequences, FiniteSets, TLC

VARIABLES
    nIn,        \* normalizePaths: the argument `paths` (a sequence of JS values)
    nOut,       \* normalizePaths(paths)
    nTwice,     \* normalizePaths(normalizePaths(paths))
    npc,        \* "call" before the call, then "once", then "twice"
    strategy,   \* discoverPages: the argument `strategy`
    options,    \* discoverPages: the argument `options`
    thisMaxPages, \* this.maxPages, set by the constructor
    site,       \* what the site answers to the crawl's page fetches
    pc,         \* where discoverPages is: "start", "crawl", "sitemap",
                \* "parse", "done"
    pages,      \* discoverPages: the local `pages` as the strategy gave it
    result,     \* the array discoverPages returned
    outcome,    \* "pending", then "returned" or "raised"
    caught,     \* whether the catch block of discoverPages ran
    toVisit,    \* discoverByCrawling: the queue toVisit
    visited,    \* this.visited
    discovered, \* this.discovered
    crawlMax,   \* discoverByCrawling: the local maxPages
    pageFetches, \* the paths whose page the crawl has requested, in order
    world,      \* which answer each sitemap document's URL gives to a fetch
    candIdx,    \* discoverFromSitemap: the candidate location at hand
    fetched,    \* the fetches of sitemap documents so far, in order, each
                \* <<"candidate", d>> or <<"child", d>>
    stack,      \* the calls of parseSitemap under way, innermost last
    crawls,     \* two discoverByCrawling calls on one object: for each its
                \* position and its locals
    scanPages,  \* executeScans: the argument `pages`
    scanner,    \* what the scanner service answers to the scan of each page
    scanPc,     \* where executeScans is: "loop", "waiting", "done"
    scanIdx,    \* the page of the for loop at hand, from 1
    inFlight,   \* the pages whose POST /scan-sync has no answer yet
    scanResults, \* the local `results`
    requests,   \* the URLs of the scan requests issued so far, in order
    axeResults, \* calculateScore: the argument `results`
    scoreOut,   \* what calculateScore returned
    scorePc,    \* "call" before the call of calculateScore, then "returned"
    aggIn,      \* aggregateResults: the argument `scanResults`
    report,     \* what aggregateResults returned
    aggPc,      \* "call" before the call of aggregateResults, then "returned"
    thresholdInput, \* core.getInput('threshold'), '' when none was supplied
    summaryScore,   \* summary.score of the run
    inputsThreshold, \* this.inputs.threshold
    successOutput,  \* the action's output 'success'
    success,        \* what evaluateSuccess returned
    outPc,          \* "inputs" before getInputs, then "outputs", then "done"
    runPc,      \* run: the step at hand, then "catch", "finally", "settled"
    runLog,     \* the steps run has invoked so far, in order
    runFlags,   \* the inputs comment-pr (on a pull request), upload-artifacts
                \* and fail-on-violations
    sessionToken, \* whether validation left a this.sessionToken
    cleanupCalls, \* how often cleanupSelfHostedScanner was invoked
    setFailedCalls, \* how often core.setFailed was called
    runOutcome, \* "pending", then "returned" or "raised"
    srvScans,   \* scanner service: the scans asked for, in order of arrival,
                \* each with its route, its browser type and its request
    srvNext,    \* the request the service handles next
    scanStatus, \* this.scanResults: the status recorded for each scan id,
                \* "none" for an id with no entry
    scanAt,     \* where the performScan of each scan id is
    browsers,   \* this.browsers: whether a browser of each type is stored
    launched,   \* the browsers of each type launched so far
    contexts,   \* the scan ids whose browser context is open
    answered,   \* the scan ids a POST has answered with
    lastGet,    \* the last answer of GET /scan/:scanId, <<>> before any
    validation, \* what POST /api/v1/validate-key answers to the action
    inputsMaxPages, \* this.inputs.maxPages: the input string, or the number
                \* the account limit put in its place
    accountLimit, \* this.accountConfig.limits.maxPagesPerScan, 0 while unset
    pagesToScan, \* what the action's discoverPages returned
    limPc       \* "validate", "discover", "discovering", then "returned" or
                \* "raised"

nvars == <<nIn, nOut, nTwice, npc>>

cvars == <<toVisit, visited, discovered, crawlMax, pageFetches>>

svars == <<world, candIdx, fetched, stack>>

dvars ==
    <<strategy, options, thisMaxPages, site, pc, pages, result, outcome, caught>>

\* two crawls on one PageDiscovery
tvars == <<crawls>>

\* executeScans of the action
scanvars ==
    <<scanPages, scanner, scanPc, scanIdx, inFlight, scanResults, requests>>

\* calculateScore of the scanner service
scorevars == <<axeResults, scoreOut, scorePc>>

\* aggregateResults of the action
aggvars == <<aggIn, report, aggPc>>

\* the threshold of the action: getInputs, setOutputs, evaluateSuccess
outvars ==
    <<thresholdInput, summaryScore, inputsThreshold, successOutput, success, outPc>>

\* run of the action
runvars ==
    <<runPc, runLog, runFlags, sessionToken, cleanupCalls, setFailedCalls,
      runOutcome>>

\* the scanner service
srvvars ==
    <<srvScans, srvNext, scanStatus, scanAt, browsers, launched, contexts,
      answered, lastGet>>

\* the account limit of the action and its discoverPages
limvars == <<validation, inputsMaxPages, accountLimit, pagesToScan, limPc>>

\* what the threshold leaves alone, what run does, what the service does, and
\* what the account limit does
outOthers ==
    <<nvars, dvars, cvars, svars, tvars, scanvars, scorevars, aggvars, runvars,
      srvvars, limvars>>
runOthers ==
    <<nvars, dvars, cvars, svars, tvars, scanvars, scorevars, aggvars, outvars,
      srvvars, limvars>>
srvOthers ==
    <<nvars, dvars, cvars, svars, tvars, scanvars, scorevars, aggvars, outvars,
      runvars, limvars>>
limOthers ==
    <<nvars, cvars, svars, tvars, scanvars, scorevars, aggvars, outvars, runvars,
      srvvars>>

\* the state machines of the action's run and of the scanner service
latevars == <<outvars, runvars, srvvars, limvars>>

\* the state machines beside the normalizer and discoverPages
evars == <<tvars, scanvars, scorevars, aggvars, latevars>>

vars == <<nvars, dvars, cvars, svars, evars>>

-----------------------------------------------------------------------------
(* Bounds of the model *)

\* longest string drawn as an input
MaxStrLen == 3
\* longest list handed to normalizePaths
MaxPaths == 2
\* most characters (one per non-string element) in one list of inputs
MaxTotal == 4
\* pages of the largest site crawled
MaxSitePages == 52
\* the largest page cap a caller configures
MaxBudget == 60
\* nested calls of parseSitemap the model follows before it stops
MaxStack == 7

-----------------------------------------------------------------------------
(* Strings *)

Alphabet == {"/", "a", "?", "#"}

\* UTF-16 code unit of a character: Array.prototype.sort() without a
\* comparator orders strings by code units.
CharCode(c) ==
    CASE c = "#" -> 35
      [] c = "-" -> 45
      [] c = "." -> 46
      [] c = "/" -> 47
      [] c = "0" -> 48
      [] c = "1" -> 49
      [] c = "2" -> 50
      [] c = "3" -> 51
      [] c = "4" -> 52
      [] c = "5" -> 53
      [] c = "6" -> 54
      [] c = "7" -> 55
      [] c = "8" -> 56
      [] c = "9" -> 57
      [] c = ":" -> 58
      [] c = "?" -> 63
      [] c = "a" -> 97
      [] c = "b" -> 98
      [] c = "c" -> 99
      [] c = "d" -> 100
      [] c = "f" -> 102
      [] c = "i" -> 105
      [] c = "m" -> 109
      [] c = "n" -> 110
      [] c = "p" -> 112
      [] c = "x" -> 120
      [] OTHER   -> 126

Min(a, b) == IF a <= b THEN a ELSE b

RECURSIVE StrLessFrom(_, _, _)
StrLessFrom(s, t, i) ==
    IF i > Len(s) THEN i <= Len(t)
    ELSE IF i > Len(t) THEN FALSE
    ELSE IF s[i] = t[i] THEN StrLessFrom(s, t, i + 1)
    ELSE CharCode(s[i]) < CharCode(t[i])

\* s < t as JavaScript compares two strings
StrLess(s, t) == StrLessFrom(s, t, 1)

StartsWith(s, p) == Len(s) >= Len(p) /\ SubSeq(s, 1, Len(p)) = p

EndsWith(s, p) ==
    Len(s) >= Len(p) /\ SubSeq(s, Len(s) - Len(p) + 1, Len(s)) = p

\* s.slice(0, -1)
DropLast(s) == SubSeq(s, 1, Len(s) - 1)

\* s.split(/[?#]/)[0]: the part of s before its first '?' or '#'
RECURSIVE BeforeQueryFrom(_, _)
BeforeQueryFrom(s, i) ==
    IF i > Len(s) \/ s[i] \in {"?", "#"} THEN SubSeq(s, 1, i - 1)
    ELSE BeforeQueryFrom(s, i + 1)

BeforeQuery(s) == BeforeQueryFrom(s, 1)

\* arr.includes(x)
Includes(arr, x) == \E i \in 1..Len(arr) : arr[i] = x

\* arr.indexOf(x), 1-based, 0 when absent (JavaScript: 0-based, -1)
IndexOf(arr, x) ==
    IF Includes(arr, x)
    THEN CHOOSE i \in 1..Len(arr) :
            arr[i] = x /\ \A j \in 1..(i - 1) : arr[j] # x
    ELSE 0

\* arr.slice(0, n) for n >= 0
Take(arr, n) == SubSeq(arr, 1, Min(n, Len(arr)))

-----------------------------------------------------------------------------
(* JavaScript values *)

JsStr(s) == [t |-> "string", s |-> s]
JsNull == [t |-> "null", s |-> <<>>]
JsNum == [t |-> "number", s |-> <<>>]     \* a non-zero number

IsString(v) == v.t = "string"

\* !v is false
Truthy(v) == IF v.t = "string" THEN v.s # <<>> ELSE v.t # "null"

-----------------------------------------------------------------------------
(* Crawl Frontier: link filter and link extraction *)

\* pattern.test(s) for a pattern that is plain text: s contains pat
Contains(s, pat) ==
    \E i \in 1..(Len(s) - Len(pat) + 1) : SubSeq(s, i, i + Len(pat) - 1) = pat

\* lines 306-310: the prefixes /^#/, /^javascript:/, /^mailto:/, /^tel:/, /^ftp:/
SkipPrefixes ==
    {<<"#">>, <<"j", "a", "v", "a", "s", "c", "r", "i", "p", "t", ":">>, <<"m", "a", "i", "l", "t", "o", ":">>, <<"t", "e", "l", ":">>, <<"f", "t", "p", ":">>}

\* line 311: the file extensions of /\.(pdf|jpg|jpeg|png|gif|svg|ico|zip|tar|gz)$/i
SkipExtensions ==
    {<<".", "p", "d", "f">>, <<".", "j", "p", "g">>, <<".", "j", "p", "e", "g">>, <<".", "p", "n", "g">>, <<".", "g", "i", "f">>,
     <<".", "s", "v", "g">>, <<".", "i", "c", "o">>, <<".", "z", "i", "p">>, <<".", "t", "a", "r">>, <<".", "g", "z">>}

\* lines 312-315: /\/admin/, /\/api\//, /\/logout/, /\/download/
SkipFragments ==
    {<<"/", "a", "d", "m", "i", "n">>, <<"/", "a", "p", "i", "/">>, <<"/", "l", "o", "g", "o", "u", "t">>, <<"/", "d", "o", "w", "n", "l", "o", "a", "d">>}

\* the /i flag of line 311: a character in lower case
LowerChar(c) ==
    CASE c = "A" -> "a"
      [] c = "D" -> "d"
      [] c = "F" -> "f"
      [] c = "G" -> "g"
      [] c = "P" -> "p"
      [] OTHER   -> c

LowerCase(s) == [i \in 1..Len(s) |-> LowerChar(s[i])]

\* shouldSkipLink(href), lines 304-319
shouldSkipLink(href) ==
    \/ \E pre \in SkipPrefixes : StartsWith(href, pre)
    \/ \E ext \in SkipExtensions : EndsWith(LowerCase(href), ext)
    \/ \E frag \in SkipFragments : Contains(href, frag)

\* the hostname of baseUrl; baseUrl itself is "http://h"
BaseHost == <<"h">>

\* a parsed URL, or the TypeError `new URL` throws
Url(host, pathname) == [ok |-> TRUE, host |-> host, pathname |-> pathname]
InvalidUrl == [ok |-> FALSE, host |-> <<>>, pathname |-> <<>>]

\* the index of the first character of s from position i on that is in
\* `stops`, Len(s) + 1 when there is none
RECURSIVE FirstOf(_, _, _)
FirstOf(s, stops, i) ==
    IF i > Len(s) \/ s[i] \in stops THEN i ELSE FirstOf(s, stops, i + 1)

\* the index of the last '/' of s, 0 when there is none
RECURSIVE LastSlash(_, _)
LastSlash(s, i) ==
    IF i = 0 \/ s[i] = "/" THEN i ELSE LastSlash(s, i - 1)

\* the URL "//host/path?query#fragment" names, `rest` being what follows "//"
\* (paths of the model carry no dot segments and no characters to escape)
AuthorityUrl(rest) ==
    LET hostEnd == FirstOf(rest, {"/", "?", "#"}, 1)
        host    == SubSeq(rest, 1, hostEnd - 1)
        tail    == BeforeQuery(SubSeq(rest, hostEnd, Len(rest)))
    IN  IF host = <<>> THEN InvalidUrl
        ELSE Url(host, IF tail = <<>> THEN <<"/">> ELSE tail)

SchemeHttp == <<"h", "t", "t", "p", ":", "/", "/">>
SchemeHttps == <<"h", "t", "t", "p", "s", ":", "/", "/">>

\* new URL(href): an absolute http(s) URL, or a throw
AbsoluteUrl(href) ==
    IF StartsWith(href, SchemeHttp)
    THEN AuthorityUrl(SubSeq(href, Len(SchemeHttp) + 1, Len(href)))
    ELSE IF StartsWith(href, SchemeHttps)
    THEN AuthorityUrl(SubSeq(href, Len(SchemeHttps) + 1, Len(href)))
    ELSE InvalidUrl

\* new URL(href, baseUrlObj) for an href that starts with '/'
RootedUrl(href) ==
    IF StartsWith(href, <<"/", "/">>)
    THEN AuthorityUrl(SubSeq(href, 3, Len(href)))
    ELSE Url(BaseHost, BeforeQuery(href))

\* new URL(href, pageUrl) for any other href: a scheme makes it a URL of no
\* host of this site, anything else is taken relative to the page's directory
RelativeUrl(href, pagePath) ==
    LET colon == FirstOf(href, {":"}, 1)
        stop  == FirstOf(href, {"/", "?", "#"}, 1)
        dir   == SubSeq(pagePath, 1, LastSlash(pagePath, Len(pagePath)))
        rel   == BeforeQuery(href)
    IN  IF colon <= Len(href) /\ colon < stop /\ colon > 1
        THEN Url(<<>>, SubSeq(href, colon + 1, Len(href)))
        ELSE IF rel = <<>> THEN Url(BaseHost, pagePath)
        ELSE Url(BaseHost, dir \o rel)

\* lines 264-272: the three forms of href
ResolveHref(href, pagePath) ==
    IF StartsWith(href, <<"/">>) THEN RootedUrl(href)
    ELSE IF StartsWith(href, <<"h", "t", "t", "p">>) THEN AbsoluteUrl(href)
    ELSE RelativeUrl(href, pagePath)

\* lines 253-291: the anchors of one page, in document order, to the list
\* `links` of distinct same-host paths
RECURSIVE LinksOfAnchors(_, _, _)
LinksOfAnchors(anchors, pagePath, links) ==
    IF anchors = <<>> THEN links
    ELSE LET href == Head(anchors)
             rest == Tail(anchors)
             url  == ResolveHref(href, pagePath)
             path == url.pathname
             normalizedPath ==
                 IF EndsWith(path, <<"/">>) /\ path # <<"/">>
                 THEN DropLast(path) ELSE path
         IN  IF href = <<>> \/ shouldSkipLink(href)
             THEN LinksOfAnchors(rest, pagePath, links)
             ELSE IF ~url.ok \/ url.host # BaseHost
             THEN LinksOfAnchors(rest, pagePath, links)
             ELSE IF normalizedPath # <<>> /\ ~Includes(links, normalizedPath)
             THEN LinksOfAnchors(rest, pagePath, Append(links, normalizedPath))
             ELSE LinksOfAnchors(rest, pagePath, links)

\* extractLinksFromPage, lines 227-299: `response` is what the fetch of the
\* page gave: status "neterr" (fetch throws), "non2xx", "nothtml" (another
\* content type) or "ok" with the hrefs of its anchors
extractLinksFromPage(response, pagePath) ==
    IF response.status # "ok" THEN <<>>
    ELSE LinksOfAnchors(response.anchors, pagePath, <<>>)

-----------------------------------------------------------------------------
(* The sites crawled: what the fetch of each page returns *)

DigitChars == <<"0", "1", "2", "3", "4", "5", "6", "7", "8", "9">>

RECURSIVE Digits(_)
Digits(i) ==
    IF i < 10 THEN <<DigitChars[i + 1]>>
    ELSE Digits(i \div 10) \o <<DigitChars[(i % 10) + 1]>>

\* the path of page i of a site: "/" for page 0, "/i" for the others
NodePath(i) == IF i = 0 THEN <<"/">> ELSE <<"/">> \o Digits(i)

\* the pages i of 0..n-1 among the candidates `is`, as hrefs made by `Href`
ExistingLinks(is, n, Href(_)) ==
    LET kept == SelectSeq(is, LAMBDA i : i < n)
    IN  [k \in 1..Len(kept) |-> Href(kept[k])]

\* the hrefs of the anchors of page i of a site of n pages
Anchors(shape, n, i) ==
    CASE shape = "chain" ->
            ExistingLinks(<<i + 1>>, n, NodePath)
      [] shape = "ring" ->
            <<NodePath(i), NodePath((i + 1) % n), <<"/">>>>
      [] shape = "tree" ->
            <<<<"#", "t", "o", "p">>>>
              \o ExistingLinks(<<2 * i + 1>>, n,
                               LAMBDA j : NodePath(j) \o <<"/">>)
              \o ExistingLinks(<<2 * i + 2>>, n,
                               LAMBDA j : NodePath(j) \o <<"?", "a">>)
              \o ExistingLinks(<<2 * i + 1>>, n, NodePath)
      [] shape = "mixed" ->
            <<<<"/", "a", "d", "m", "i", "n", "/", "1">>, <<"m", "a", "i", "l", "t", "o", ":", "a">>, <<>>, <<"/", "1", ".", "P", "D", "F">>,
              <<"h", "t", "t", "p", ":", "/", "/", "x", "/", "1">>, <<"/", "/", "x", "/", "2">>>>
              \o ExistingLinks(<<i + 2>>, n,
                               LAMBDA j : <<"h", "t", "t", "p", ":", "/", "/", "h">> \o NodePath(j))
              \o ExistingLinks(<<i + 1>>, n, LAMBDA j : Tail(NodePath(j)))
      [] shape = "links" ->
            IF i = 0
            THEN <<<<"a", "d", "m", "i", "n">>, <<"/", "l", "o", "g", "o", "u", "t">>,
                   <<"h", "t", "t", "p", ":", "/", "/", "h", "/", "a", "p", "i", "/", "1">>,
                   <<"t", "e", "l", ":", "1">>, <<"f", "t", "p", ":", "/", "/", "h", "/", "1">>,
                   <<"j", "a", "v", "a", "s", "c", "r", "i", "p", "t", ":", "1">>,
                   <<"/", "1">>, <<"/", "2", ".", "p", "d", "f">>>>
            ELSE <<<<"1", ".", "p", "d", "f", "?", "a">>, <<"a", "p", "i", "/", "1">>, <<"#", "1">>>>
      [] OTHER -> <<>>

\* the response to the fetch of `path`: pages in site.fail answer as
\* site.failAs says, every path that is no page of the site answers 404
Fetch(st, path) ==
    LET here == {i \in 0..(st.n - 1) : NodePath(i) = path}
    IN  IF here = {} THEN [status |-> "non2xx", anchors |-> <<>>]
        ELSE LET i == CHOOSE j \in here : TRUE
             IN  IF i \in st.fail
                 THEN [status |-> st.failAs, anchors |-> <<>>]
                 ELSE [status |-> "ok", anchors |-> Anchors(st.shape, st.n, i)]

SmallSites ==
    {st \in [shape : {"chain", "ring", "tree", "mixed"}, n : {1, 3},
             fail : {{}, {0}, {1}}, failAs : {"neterr", "non2xx", "nothtml"}] :
        /\ st.fail = {} => st.failAs = "neterr"
        /\ \A i \in st.fail : i < st.n}

LargeSites ==
    [shape : {"chain", "ring", "tree"}, n : {MaxSitePages},
     fail : {{}, {1}}, failAs : {"neterr"}]

\* two pages whose anchors are the kinds of href the link filter is about
LinkSites ==
    [shape : {"links"}, n : {2}, fail : {{}}, failAs : {"neterr"}]

\* a site that no crawl reads
NoSite == [shape |-> "chain", n |-> 0, fail |-> {}, failAs |-> "neterr"]

-----------------------------------------------------------------------------
(* Sitemap Resolver: the documents a site serves *)

\* lines 79-84: the candidate locations, tried in this order
sitemapUrls ==
    <<<<"/", "s", "i", "t", "e", "m", "a", "p", ".", "x", "m", "l">>,
      <<"/", "s", "i", "t", "e", "m", "a", "p", "_", "i", "n", "d", "e", "x", ".", "x", "m", "l">>,
      <<"/", "s", "i", "t", "e", "m", "a", "p", "/", "s", "i", "t", "e", "m", "a", "p", ".", "x", "m", "l">>,
      <<"/", "s", "i", "t", "e", "m", "a", "p", "s", "/", "s", "i", "t", "e", "m", "a", "p", ".", "x", "m", "l">>>>

\* a sitemap document is named by a number: 1..4 are the candidate
\* locations under baseUrl, the others are child sitemaps
Candidates == 1..Len(sitemapUrls)
Children == {5, 6, 7}

\* a <loc> of a urlset: a URL of some host, a text `new URL` rejects, or none
Loc(host, pathname) == [t |-> "url", host |-> host, pathname |-> pathname]
BadLoc == [t |-> "invalid", host |-> <<>>, pathname |-> <<>>]
NoLoc == [t |-> "none", host |-> <<>>, pathname |-> <<>>]

\* what a fetch of a document gives: status "neterr" (fetch throws),
\* "non2xx" or "ok"; the text is "garbage" (xml2js throws), a "urlset" with
\* its <loc>s, an "index" with the documents its <loc>s name (0: no <loc>),
\* or "other" XML
Response(status, kind, locs, subs) ==
    [status |-> status, kind |-> kind, locs |-> locs, subs |-> subs]

NetErr == Response("neterr", "other", <<>>, <<>>)
Non2xx == Response("non2xx", "other", <<>>, <<>>)
Garbage == Response("ok", "garbage", <<>>, <<>>)
OtherXml == Response("ok", "other", <<>>, <<>>)
UrlSet(locs) == Response("ok", "urlset", locs, <<>>)
SitemapIndex(subs) == Response("ok", "index", <<>>, subs)

OtherHost == <<"x">>

SetA ==
    UrlSet(<<Loc(BaseHost, <<"/", "a">>), Loc(OtherHost, <<"/", "b">>),
             NoLoc, Loc(BaseHost, <<"/">>)>>)
Set3 ==
    UrlSet(<<Loc(BaseHost, <<"/", "3">>), Loc(BaseHost, <<"/", "1">>),
             Loc(BaseHost, <<"/", "2">>)>>)
Set4 ==
    UrlSet(<<Loc(BaseHost, <<"/", "4">>), Loc(BaseHost, <<"/", "5">>),
             Loc(OtherHost, <<"/", "9">>), Loc(BaseHost, <<"/", "6">>),
             Loc(BaseHost, <<"/", "7">>)>>)
ForeignSet == UrlSet(<<Loc(OtherHost, <<"/", "a">>)>>)
BadSet == UrlSet(<<Loc(BaseHost, <<"/", "8">>), BadLoc>>)

\* what a candidate location can answer
CandidateMenu ==
    <<NetErr, Non2xx, Garbage, UrlSet(<<>>), ForeignSet, SetA,
      SitemapIndex(<<5, 0, 6>>), SitemapIndex(<<5, 6, 7>>)>>

\* what the URL of child sitemap c can answer: the last two are an index
\* that names the first candidate and an index that names itself
ChildMenu(c) ==
    <<NetErr, Non2xx, Garbage, OtherXml, Set3, Set4, BadSet,
      SitemapIndex(<<7>>), SitemapIndex(<<1>>), SitemapIndex(<<c>>)>>

\* a world says, for each document, which answer of its menu it gives
DocOf(w, d) ==
    IF d \in Candidates THEN CandidateMenu[w[d]] ELSE ChildMenu(d)[w[d]]

\* every choice of candidates over the children Set3, Set4 and Garbage
WorldsOfCandidates ==
    {[d \in Candidates \cup Children |->
         IF d \in Candidates THEN cands[d]
         ELSE IF d = 5 THEN 5 ELSE IF d = 6 THEN 6 ELSE 3] :
       cands \in [Candidates -> 1..7]}

\* every choice of children under the index <<5, 6, 7>> at the first
\* candidate, SetA at the second and 404 at the others
WorldsOfChildren ==
    {[d \in Candidates \cup Children |->
         IF d = 1 THEN 8
         ELSE IF d = 2 THEN 6
         ELSE IF d \in Candidates THEN 2
         ELSE subs[d]] :
       subs \in [Children -> 1..10]}

\* a world that no sitemap resolution reads
NoWorld == [d \in Candidates \cup Children |-> 2]

-----------------------------------------------------------------------------
(* Link Normalizer: PageDiscovery.normalizePaths *)

\* lines 352-362: one path string brought to its normal form
NormalizeOne(path) ==
    LET withSlash == IF StartsWith(path, <<"/">>) THEN path ELSE <<"/">> \o path
        noTrail   == IF withSlash # <<"/">> /\ EndsWith(withSlash, <<"/">>)
                     THEN DropLast(withSlash)
                     ELSE withSlash
    IN  BeforeQuery(noTrail)

\* lines 345-365: the Set `normalized`, in insertion order
RECURSIVE NormalizedSet(_, _)
NormalizedSet(paths, acc) ==
    IF paths = <<>> THEN acc
    ELSE LET path == Head(paths)
         IN  IF ~Truthy(path) \/ ~IsString(path)
             THEN NormalizedSet(Tail(paths), acc)
             ELSE LET np == NormalizeOne(path.s)
                  IN  NormalizedSet(Tail(paths),
                                    IF Includes(acc, np) THEN acc
                                    ELSE Append(acc, np))

\* one string put in its place in a sorted array
RECURSIVE InsertSorted(_, _)
InsertSorted(sorted, x) ==
    IF sorted = <<>> THEN <<x>>
    ELSE IF StrLess(x, Head(sorted)) THEN <<x>> \o sorted
    ELSE <<Head(sorted)>> \o InsertSorted(Tail(sorted), x)

\* the array left in insertion order, as if line 368 did not sort
SortStrings_Unsorted(arr) == arr

\* line 368: Array.from(normalized).sort()
RECURSIVE SortStrings(_)
SortStrings(arr) ==
    IF arr = <<>> THEN <<>>
    ELSE InsertSorted(SortStrings(Tail(arr)), Head(arr))

\* lines 370-375: the root path moved to the front
RootFirst(sorted) ==
    LET rootIndex == IndexOf(sorted, <<"/">>)
    IN  IF rootIndex > 1
        THEN <<<<"/">>>> \o SubSeq(sorted, 1, rootIndex - 1)
                         \o SubSeq(sorted, rootIndex + 1, Len(sorted))
        ELSE sorted

\* normalizePaths(paths): a sequence of JS values to a sequence of strings
normalizePaths(paths) == RootFirst(SortStrings(NormalizedSet(paths, <<>>)))

\* an array of strings as the array of JS values it is
AsJs(strs) == [i \in 1..Len(strs) |-> JsStr(strs[i])]

-----------------------------------------------------------------------------
(* Manual paths: PageDiscovery.parseManualPaths *)

LF == "\n"

\* the characters String.prototype.trim removes
WhiteSpace == {" ", LF}

\* s.split('\n')
RECURSIVE SplitLines(_, _)
SplitLines(s, line) ==
    IF s = <<>> THEN <<line>>
    ELSE IF Head(s) = LF THEN <<line>> \o SplitLines(Tail(s), <<>>)
    ELSE SplitLines(Tail(s), Append(line, Head(s)))

RECURSIVE TrimStart(_)
TrimStart(s) ==
    IF s # <<>> /\ Head(s) \in WhiteSpace THEN TrimStart(Tail(s)) ELSE s

RECURSIVE TrimEnd(_)
TrimEnd(s) ==
    IF s # <<>> /\ s[Len(s)] \in WhiteSpace THEN TrimEnd(DropLast(s)) ELSE s

\* s.trim()
Trim(s) == TrimEnd(TrimStart(s))

\* the argument pathsInput: a string, an array of values, or neither
PathsString(s) == [kind |-> "string", str |-> s, arr |-> <<>>]
PathsArray(a) == [kind |-> "array", str |-> <<>>, arr |-> a]
PathsAbsent == [kind |-> "absent", str |-> <<>>, arr |-> <<>>]

\* parseManualPaths(pathsInput), lines 324-339: an array of strings
parseManualPaths(pathsInput) ==
    IF pathsInput.kind = "string"
    THEN LET lines   == SplitLines(pathsInput.str, <<>>)
             trimmed == [i \in 1..Len(lines) |-> Trim(lines[i])]
         IN  SelectSeq(trimmed,
                       LAMBDA path : path # <<>> /\ ~StartsWith(path, <<"#">>))
    ELSE IF pathsInput.kind = "array"
    THEN LET kept == SelectSeq(pathsInput.arr,
                               LAMBDA path : Truthy(path) /\ IsString(path))
         IN  [i \in 1..Len(kept) |-> kept[i].s]
    ELSE <<>>

\* line 46: options.paths || []
PathsOrEmpty(pathsInput) ==
    IF pathsInput.kind = "absent"
          \/ (pathsInput.kind = "string" /\ pathsInput.str = <<>>)
    THEN PathsArray(<<>>)
    ELSE pathsInput

-----------------------------------------------------------------------------
(* Page Discovery Coordinator: the arguments of discoverPages *)

\* line 12: the page cap of a PageDiscovery built without config.maxPages
DefaultMaxPages == 10
\* line 180: the crawler's own cap
CrawlCap == 50

\* the value null, whose toLowerCase() throws
NullStrategy == "<null>"

\* strategy.toLowerCase()
StrategyLower(str) ==
    CASE str = "SINGLE"  -> "single"
      [] str = "Sitemap" -> "sitemap"
      [] str = "CRAWL"   -> "crawl"
      [] str = "Paths"   -> "paths"
      [] OTHER           -> str

\* options: isNull for the value null; maxPages 0 when absent (or 0 or NaN,
\* which || treats alike); startPaths and paths as given
Options(maxPages, startPaths, paths) ==
    [isNull |-> FALSE, maxPages |-> maxPages, startPaths |-> startPaths,
     paths |-> paths]

\* options.startPaths: absent, or an array of strings
NoSeeds == [given |-> FALSE, v |-> <<>>]
Seeds(v) == [given |-> TRUE, v |-> v]

NoOptions == Options(0, NoSeeds, PathsAbsent)
NullOptions == [NoOptions EXCEPT !.isNull = TRUE]

-----------------------------------------------------------------------------
(* Inputs of the normalizer *)

StringsUpTo(n) == UNION {[1..k -> Alphabet] : k \in 0..n}

\* the values an element of `paths` can be, of at most n characters
ValuesUpTo(n) ==
    {JsStr(s) : s \in StringsUpTo(Min(n, MaxStrLen))}
        \cup (IF n >= 1 THEN {JsNull, JsNum} ELSE {})

Cost(v) == IF IsString(v) THEN Len(v.s) ELSE 1

\* the lists of at most n values and at most `budget` characters in all
RECURSIVE InputLists(_, _)
InputLists(n, budget) ==
    IF n = 0 THEN {<<>>}
    ELSE {<<>>} \cup
         UNION {{<<v>> \o rest : rest \in InputLists(n - 1, budget - Cost(v))} :
                    v \in ValuesUpTo(budget)}

\* no discovery is under way
DiscoveryIdle ==
    /\ strategy = "single"
    /\ options = NoOptions
    /\ thisMaxPages = DefaultMaxPages
    /\ site = NoSite
    /\ pc = "idle"
    /\ pages = <<>>
    /\ result = <<>>
    /\ outcome = "pending"
    /\ caught = FALSE
    /\ toVisit = <<>>
    /\ visited = {}
    /\ discovered = <<>>
    /\ crawlMax = 0
    /\ pageFetches = <<>>
    /\ world = NoWorld
    /\ candIdx = 0
    /\ fetched = <<>>
    /\ stack = <<>>

\* no pair of crawls is under way
TwoIdle == crawls = <<>>

\* no executeScans is under way
ScanIdle ==
    /\ scanPages = <<>>
    /\ scanner = <<>>
    /\ scanPc = "idle"
    /\ scanIdx = 0
    /\ inFlight = {}
    /\ scanResults = <<>>
    /\ requests = <<>>

\* the threshold is not being read
OutIdle ==
    /\ thresholdInput = <<>>
    /\ summaryScore = 0
    /\ inputsThreshold = 0
    /\ successOutput = ""
    /\ success = FALSE
    /\ outPc = "idle"

\* no run is under way
RunIdle ==
    /\ runPc = "idle"
    /\ runLog = <<>>
    /\ runFlags = [commentPr |-> FALSE, uploadArtifacts |-> FALSE,
                   failOnViolations |-> FALSE]
    /\ sessionToken = FALSE
    /\ cleanupCalls = 0
    /\ setFailedCalls = 0
    /\ runOutcome = "pending"

\* the scanner service has no request
SrvIdle ==
    /\ srvScans = <<>>
    /\ srvNext = 0
    /\ scanStatus = <<>>
    /\ scanAt = <<>>
    /\ browsers = {}
    /\ launched = <<>>
    /\ contexts = {}
    /\ answered = {}
    /\ lastGet = <<>>

\* no account is being validated
LimIdle ==
    /\ validation = [ok |-> FALSE, limit |-> 0]
    /\ inputsMaxPages = [t |-> "string", s |-> <<>>, n |-> 0]
    /\ accountLimit = 0
    /\ pagesToScan = <<>>
    /\ limPc = "idle"

LateIdle == OutIdle /\ RunIdle /\ SrvIdle /\ LimIdle

\* no aggregateResults is under way
AggIdle ==
    /\ aggIn = <<>>
    /\ report = <<>>
    /\ aggPc = "idle"

\* no calculateScore is under way
ScoreIdle ==
    /\ axeResults = [passes |-> 0, violations |-> <<>>]
    /\ scoreOut = 0
    /\ scorePc = "idle"

InitNorm ==
    /\ TwoIdle
    /\ ScanIdle
    /\ ScoreIdle
    /\ AggIdle
    /\ LateIdle
    /\ nIn \in InputLists(MaxPaths, MaxTotal)
    /\ nOut = <<>>
    /\ nTwice = <<>>
    /\ npc = "call"
    /\ DiscoveryIdle

\* normalizePaths(paths)
NormCall ==
    /\ npc = "call"
    /\ nOut' = normalizePaths(nIn)
    /\ npc' = "once"
    /\ UNCHANGED <<nIn, nTwice, dvars, cvars, svars, evars>>

\* normalizePaths applied to its own result
NormAgain ==
    /\ npc = "once"
    /\ nTwice' = normalizePaths(AsJs(nOut))
    /\ npc' = "twice"
    /\ UNCHANGED <<nIn, nOut, dvars, cvars, svars, evars>>

NextNorm == NormCall \/ NormAgain

SpecNorm == InitNorm /\ [][NextNorm]_vars

-----------------------------------------------------------------------------
(* Page Discovery Coordinator: discoverPages, and the crawl it awaits *)

\* lines 57-61: pages.slice(0, this.maxPages) when there are more
LimitPages(pgs, cap) == IF Len(pgs) > cap THEN Take(pgs, cap) ELSE pgs

\* lines 54-64: the strategy's pages normalized, capped and returned
Finish(pgs) ==
    /\ pages' = pgs
    /\ result' = LimitPages(normalizePaths(AsJs(pgs)), thisMaxPages)
    /\ outcome' = "returned"
    /\ pc' = "done"
    /\ UNCHANGED caught

\* the error thrown on to the caller, as if there were no catch block
CatchOutcome_Rethrow == "raised"

\* what discoverPages does with an error its try block catches: it returns
CatchOutcome == "returned"

\* lines 66-70: the catch block
Fallback ==
    /\ UNCHANGED pages
    /\ result' = <<<<"/">>>>
    /\ outcome' = CatchOutcome
    /\ caught' = TRUE
    /\ pc' = "done"

\* lines 33-35: case 'single'
DiscoverSingle ==
    /\ pc = "start"
    /\ strategy # NullStrategy
    /\ StrategyLower(strategy) = "single"
    /\ Finish(<<<<"/">>>>)
    /\ UNCHANGED <<nvars, evars, cvars, svars, strategy, options, thisMaxPages, site>>

\* lines 49-51: any other strategy name
DiscoverUnknown ==
    /\ pc = "start"
    /\ strategy # NullStrategy
    /\ StrategyLower(strategy) \notin {"single", "sitemap", "crawl", "paths"}
    /\ Finish(<<<<"/">>>>)
    /\ UNCHANGED <<nvars, evars, cvars, svars, strategy, options, thisMaxPages, site>>

\* lines 45-47: case 'paths'
DiscoverPaths ==
    /\ pc = "start"
    /\ strategy # NullStrategy
    /\ StrategyLower(strategy) = "paths"
    /\ ~options.isNull
    /\ Finish(parseManualPaths(PathsOrEmpty(options.paths)))
    /\ UNCHANGED <<nvars, evars, cvars, svars, strategy, options, thisMaxPages, site>>

\* line 32 with a strategy that has no toLowerCase, lines 42, 46 and 180 with
\* options null: a TypeError inside the try block
DiscoverThrows ==
    /\ pc = "start"
    /\ \/ strategy = NullStrategy
       \/ StrategyLower(strategy) \in {"crawl", "paths"} /\ options.isNull
    /\ Fallback
    /\ UNCHANGED <<nvars, evars, cvars, svars, strategy, options, thisMaxPages, site>>

\* line 180: Math.min(options.maxPages || this.maxPages, 50)
CrawlBudget ==
    Min(IF options.maxPages # 0 THEN options.maxPages ELSE thisMaxPages,
        CrawlCap)

\* lines 41-43 and 177-187: case 'crawl', up to the first test of the loop
DiscoverCrawl ==
    /\ pc = "start"
    /\ strategy # NullStrategy
    /\ StrategyLower(strategy) = "crawl"
    /\ ~options.isNull
    /\ crawlMax' = CrawlBudget
    /\ visited' = {}
    /\ discovered' = <<>>
    /\ pageFetches' = <<>>
    /\ toVisit' = IF options.startPaths.given THEN options.startPaths.v
                  ELSE <<<<"/">>>>
    /\ pc' = "crawl"
    /\ UNCHANGED <<nvars, evars, svars, strategy, options, thisMaxPages, site, pages,
                   result, outcome, caught>>

\* the loop condition off by one: one more page than the budget
CrawlContinue_OffByOne == toVisit # <<>> /\ Len(discovered) <= crawlMax

\* line 189: the condition of the while loop
CrawlContinue == toVisit # <<>> /\ Len(discovered) < crawlMax

\* the new links put before the queue: a stack, depth first
Enqueue_Front(queue, links, seen) ==
    SelectSeq(links, LAMBDA l : l \notin seen /\ ~Includes(queue, l)) \o queue

\* lines 206-210: the links not yet visited nor queued, behind the queue
RECURSIVE Enqueue(_, _, _)
Enqueue(queue, links, seen) ==
    IF links = <<>> THEN queue
    ELSE LET link == Head(links)
         IN  IF link \notin seen /\ ~Includes(queue, link)
             THEN Enqueue(Append(queue, link), Tail(links), seen)
             ELSE Enqueue(queue, Tail(links), seen)

\* the path marked visited only when its page could be read
MarkVisited_OnlyOnSuccess(vis, path) ==
    IF Fetch(site, path).status = "ok" THEN vis \cup {path} ELSE vis

\* line 198: this.visited.add(path), before the page is fetched
MarkVisited(vis, path) == vis \cup {path}

\* lines 189-218: one turn of the loop; extractLinksFromPage turns every
\* failure of the fetch into an empty list of links
CrawlStep ==
    /\ pc = "crawl"
    /\ CrawlContinue
    /\ LET path == Head(toVisit)
           links == extractLinksFromPage(Fetch(site, path), path)
       IN  IF path \in visited
           THEN /\ toVisit' = Tail(toVisit)
                /\ UNCHANGED <<visited, discovered, pageFetches>>
           ELSE /\ visited' = MarkVisited(visited, path)
                /\ discovered' = Append(discovered, path)
                /\ pageFetches' = Append(pageFetches, path)
                /\ toVisit' = Enqueue(Tail(toVisit), links, visited')
    /\ UNCHANGED <<nvars, evars, svars, dvars, crawlMax>>

\* lines 220-221 and 54-64: the loop is left, discoverByCrawling returns
\* this.discovered and discoverPages goes on with it
CrawlReturn ==
    /\ pc = "crawl"
    /\ ~CrawlContinue
    /\ Finish(discovered)
    /\ UNCHANGED <<nvars, evars, cvars, svars, strategy, options, thisMaxPages, site>>

-----------------------------------------------------------------------------
(* Sitemap Resolver: discoverFromSitemap and parseSitemap *)

\* the host filter dropped: every URL kept
SameHost_AnyHost(loc) == TRUE

\* line 135: url.hostname === baseUrlObj.hostname
SameHost(loc) == loc.host = BaseHost

\* lines 128-140: the pathnames of the <loc>s of the host of baseUrl
RECURSIVE UrlSetPages(_)
UrlSetPages(locs) ==
    IF locs = <<>> THEN <<>>
    ELSE LET loc == Head(locs)
         IN  IF loc.t = "url" /\ SameHost(loc)
             THEN <<loc.pathname>> \o UrlSetPages(Tail(locs))
             ELSE UrlSetPages(Tail(locs))

\* lines 124 and 132: what makes parseSitemap throw: xml2js rejects the
\* text, or `new URL` rejects a <loc>
ParseThrows(doc) ==
    \/ doc.kind = "garbage"
    \/ doc.kind = "urlset" /\ \E i \in 1..Len(doc.locs) : doc.locs[i].t = "invalid"

\* lines 121-141: a call parseSitemap(text of document d, baseUrl) as it
\* reaches the loop over the entries of a sitemap index
Frame(d) ==
    [doc |-> d,
     failed |-> ParseThrows(DocOf(world, d)),
     pages |-> IF DocOf(world, d).kind = "urlset" /\ ~ParseThrows(DocOf(world, d))
               THEN UrlSetPages(DocOf(world, d).locs) ELSE <<>>,
     next |-> 1]

\* the innermost call
Top == stack[Len(stack)]

\* the call has thrown or has no entry of an index left
FrameDone(f) ==
    \/ f.failed
    \/ DocOf(world, f.doc).kind # "index"
    \/ f.next > Len(DocOf(world, f.doc).subs)

\* the stack with its innermost call replaced
WithTop(f) == [stack EXCEPT ![Len(stack)] = f]

\* lines 37-39: case 'sitemap'
DiscoverSitemap ==
    /\ pc = "start"
    /\ strategy # NullStrategy
    /\ StrategyLower(strategy) = "sitemap"
    /\ pc' = "sitemap"
    /\ candIdx' = 1
    /\ UNCHANGED <<nvars, evars, cvars, strategy, options, thisMaxPages, site, pages,
                   result, outcome, caught, world, fetched, stack>>

\* a candidate skipped over
NextCandidate_SkipOne(i) == i + 2

\* the candidate tried after candidate i
NextCandidate(i) == i + 1

\* lines 86-102 and 109-111: the fetch of one candidate location
SitemapFetch ==
    /\ pc = "sitemap"
    /\ candIdx \in Candidates
    /\ fetched' = Append(fetched, <<"candidate", candIdx>>)
    /\ IF DocOf(world, candIdx).status = "ok"
       THEN /\ stack' = <<Frame(candIdx)>>
            /\ pc' = "parse"
            /\ UNCHANGED candIdx
       ELSE /\ candIdx' = NextCandidate(candIdx)
            /\ UNCHANGED <<stack, pc>>
    /\ UNCHANGED <<nvars, evars, cvars, strategy, options, thisMaxPages, site, pages,
                   result, outcome, caught, world>>

\* line 114 and lines 66-70: no candidate is left, the error is thrown and
\* discoverPages catches it
SitemapExhausted ==
    /\ pc = "sitemap"
    /\ candIdx \notin Candidates
    /\ Fallback
    /\ UNCHANGED <<nvars, evars, cvars, svars, strategy, options, thisMaxPages, site>>

\* line 147: an entry of the index without <loc>
ParseSkipEntry ==
    /\ pc = "parse"
    /\ ~FrameDone(Top)
    /\ DocOf(world, Top.doc).subs[Top.next] = 0
    /\ stack' = WithTop([Top EXCEPT !.next = @ + 1])
    /\ UNCHANGED <<nvars, evars, cvars, dvars, world, candIdx, fetched>>

\* lines 148-162: the fetch of a child sitemap, and the nested call of
\* parseSitemap when it answers 2xx
ParseFetchChild ==
    /\ pc = "parse"
    /\ ~FrameDone(Top)
    /\ LET sub == DocOf(world, Top.doc).subs[Top.next]
       IN  /\ sub # 0
           /\ fetched' = Append(fetched, <<"child", sub>>)
           /\ IF DocOf(world, sub).status = "ok"
              THEN /\ Len(stack) < MaxStack
                   /\ stack' = Append(stack, Frame(sub))
              ELSE stack' = WithTop([Top EXCEPT !.next = @ + 1])
    /\ UNCHANGED <<nvars, evars, cvars, dvars, world, candIdx>>

\* the pages of a child put in front of those of the children before it
PushPages_Prepend(pgs, childPages) == childPages \o pgs

\* line 158: childPages appended to pages
PushPages(pgs, childPages) == pgs \o childPages

\* lines 157-162 and 167-171: a nested call returns its pages or throws, and
\* the calling loop goes to its next entry
ParseReturnChild ==
    /\ pc = "parse"
    /\ Len(stack) > 1
    /\ FrameDone(Top)
    /\ LET parent == stack[Len(stack) - 1]
           after  == [parent EXCEPT
                        !.next = @ + 1,
                        !.pages = IF Top.failed THEN @
                                  ELSE PushPages(@, Top.pages)]
       IN  stack' = Append(SubSeq(stack, 1, Len(stack) - 2), after)
    /\ UNCHANGED <<nvars, evars, cvars, dvars, world, candIdx, fetched>>

\* lines 102-107 and 54-64: the outermost call returns pages, which
\* discoverFromSitemap returns and discoverPages goes on with
ParseReturnPages ==
    /\ pc = "parse"
    /\ Len(stack) = 1
    /\ FrameDone(Top)
    /\ ~Top.failed
    /\ Top.pages # <<>>
    /\ stack' = <<>>
    /\ Finish(Top.pages)
    /\ UNCHANGED <<nvars, evars, cvars, strategy, options, thisMaxPages, site, world,
                   candIdx, fetched>>

\* lines 104 and 109-111: the outermost call returns no page or throws, and
\* the next candidate is tried
ParseReturnNothing ==
    /\ pc = "parse"
    /\ Len(stack) = 1
    /\ FrameDone(Top)
    /\ Top.failed \/ Top.pages = <<>>
    /\ stack' = <<>>
    /\ candIdx' = NextCandidate(candIdx)
    /\ pc' = "sitemap"
    /\ UNCHANGED <<nvars, evars, cvars, strategy, options, thisMaxPages, site, pages,
                   result, outcome, caught, world, fetched>>

-----------------------------------------------------------------------------
(* The calls of discoverPages explored *)

\* config.maxPages given to the constructor, 0 for none
CapChoices == {0, 1, 2, MaxBudget}

\* options.maxPages, 0 for none
BudgetChoices == {0, 1, 3, MaxBudget}

PathsInputs ==
    {PathsAbsent,
     [kind |-> "number", str |-> <<>>, arr |-> <<>>],
     PathsArray(<<>>),
     PathsArray(<<JsStr(<<"/", "a">>)>>),
     PathsArray(<<JsStr(<<"/", "c">>), JsStr(<<"/">>), JsStr(<<"/", "b">>),
                  JsStr(<<"/", "a">>)>>),
     PathsArray(<<JsStr(<<>>), JsNull, JsNum>>),
     PathsArray(<<JsStr(<<"b">>), JsStr(<<"a", "/">>),
                  JsStr(<<"/", "a", "?", "x">>), JsNull>>),
     PathsArray(<<JsStr(<<"#", "c">>), JsStr(<<"/", "a">>)>>),
     PathsString(<<>>),
     PathsString(<<LF, " ", LF, "#", "x">>),
     PathsString(<<"/", LF, "/", "a", LF, LF, "#", " ", "c", LF, "/", "b">>),
     PathsString(<<" ", "/", "c", LF, "/", "b", " ", LF, "/", "a">>)}

SeedChoices ==
    {NoSeeds, Seeds(<<>>), Seeds(<<<<"/">>>>),
     Seeds(<<<<"/", "1">>, <<"/">>>>),
     Seeds(<<<<"/">>, <<"/">>, <<"/", "2">>>>),
     Seeds(<<<<"/", "1", "/">>, <<"/", "1">>>>),
     Seeds(<<<<"/", "9">>>>)}

\* a PageDiscovery built with config.maxPages = cap (0: none), its call
\* discoverPages(baseUrl, strategy, options), and the site the call meets
Call(cap, str, opts, st, w) ==
    [cap |-> cap, strategy |-> str, options |-> opts, site |-> st, world |-> w]

Calls ==
    {Call(cap, str, opts, NoSite, NoWorld) :
        cap \in CapChoices,
        str \in {"single", "SINGLE", "bogus", NullStrategy},
        opts \in {NoOptions, NullOptions}
                    \cup {Options(m, NoSeeds, PathsAbsent) : m \in BudgetChoices}}
    \cup
    {Call(cap, str, opts, NoSite, NoWorld) :
        cap \in CapChoices,
        str \in {"paths", "Paths"},
        opts \in {NullOptions}
                    \cup {Options(m, NoSeeds, p) :
                            m \in BudgetChoices, p \in PathsInputs}}
    \cup
    {Call(cap, "crawl", opts, st, NoWorld) :
        cap \in CapChoices,
        opts \in {NullOptions}
                    \cup {Options(m, sd, PathsAbsent) :
                            m \in BudgetChoices, sd \in SeedChoices},
        st \in SmallSites}
    \cup
    {Call(cap, str, opts, st, NoWorld) :
        cap \in CapChoices,
        str \in {"crawl", "CRAWL"},
        opts \in {Options(m, sd, PathsAbsent) :
                    m \in BudgetChoices,
                    sd \in {NoSeeds, Seeds(<<<<"/", "1">>, <<"/">>>>)}},
        st \in LargeSites}
    \cup
    {Call(0, "crawl", Options(m, NoSeeds, PathsAbsent), st, NoWorld) :
        m \in BudgetChoices, st \in LinkSites}
    \cup
    {Call(cap, "sitemap", NoOptions, NoSite, w) :
        cap \in {0, 2},
        w \in WorldsOfCandidates}
    \cup
    {Call(0, "sitemap", NoOptions, NoSite, w) : w \in WorldsOfChildren}
    \cup
    {Call(3, "Sitemap", NullOptions, NoSite, w) :
        w \in {v \in WorldsOfChildren : v[6] = 6 /\ v[7] = 5}}

\* no normalizePaths call of SpecNorm is under way
NormIdle ==
    /\ nIn = <<>>
    /\ nOut = <<>>
    /\ nTwice = <<>>
    /\ npc = "idle"

Init ==
    /\ NormIdle
    /\ TwoIdle
    /\ ScanIdle
    /\ ScoreIdle
    /\ AggIdle
    /\ LateIdle
    /\ \E c \in Calls :
          /\ thisMaxPages = (IF c.cap = 0 THEN DefaultMaxPages ELSE c.cap)
          /\ strategy = c.strategy
          /\ options = c.options
          /\ site = c.site
          /\ world = c.world
    /\ pc = "start"
    /\ pages = <<>>
    /\ result = <<>>
    /\ outcome = "pending"
    /\ caught = FALSE
    /\ toVisit = <<>>
    /\ visited = {}
    /\ discovered = <<>>
    /\ crawlMax = 0
    /\ pageFetches = <<>>
    /\ candIdx = 0
    /\ fetched = <<>>
    /\ stack = <<>>

Next ==
    \/ DiscoverSingle
    \/ DiscoverUnknown
    \/ DiscoverPaths
    \/ DiscoverThrows
    \/ DiscoverCrawl
    \/ CrawlStep
    \/ CrawlReturn
    \/ DiscoverSitemap
    \/ SitemapFetch
    \/ SitemapExhausted
    \/ ParseSkipEntry
    \/ ParseFetchChild
    \/ ParseReturnChild
    \/ ParseReturnPages
    \/ ParseReturnNothing

Spec == Init /\ [][Next]_vars

-----------------------------------------------------------------------------
(* Properties of the normalizer, checked under SpecNorm *)

\* a canonical Path: starts with '/', ends with '/' only when it is '/',
\* holds neither '?' nor '#'
IsCanonical(p) ==
    /\ StartsWith(p, <<"/">>)
    /\ EndsWith(p, <<"/">>) => p = <<"/">>
    /\ \A i \in 1..Len(p) : p[i] \notin {"?", "#"}

\* C5: normalizePaths is idempotent: normalizing its result changes nothing.
C5_Idempotent == npc = "twice" => nTwice = nOut

\* C6: every element of the result of normalizePaths is a canonical Path.
C6_CanonicalPaths ==
    npc # "call" => \A i \in 1..Len(nOut) : IsCanonical(nOut[i])

\* the elements of `paths` that are non-empty strings
ValidInputs == {i \in 1..Len(nIn) : IsString(nIn[i]) /\ nIn[i].s # <<>>}

\* C7: the result of normalizePaths has no duplicates, is in ascending
\* lexicographic order except that '/' is first when present, and holds
\* exactly what the non-empty string inputs contribute: empty and non-string
\* inputs add nothing.
C7_DedupSorted ==
    npc # "call" =>
        /\ \A i, j \in 1..Len(nOut) : i # j => nOut[i] # nOut[j]
        /\ Includes(nOut, <<"/">>) => nOut[1] = <<"/">>
        /\ \A i, j \in 1..Len(nOut) :
              (i < j /\ nOut[i] # <<"/">>) => StrLess(nOut[i], nOut[j])
        /\ {nOut[i] : i \in 1..Len(nOut)}
              = {NormalizeOne(nIn[i].s) : i \in ValidInputs}

\* two valid inputs that arrive out of order and leave sorted
C7_Witness ==
    /\ npc = "once"
    /\ ValidInputs = {1, 2}
    /\ Len(nOut) = 2
    /\ nOut[1] = NormalizeOne(nIn[2].s)
    /\ nOut[1] # <<"/">>

-----------------------------------------------------------------------------
(* Properties of the crawl *)

IsCrawl == strategy # NullStrategy /\ StrategyLower(strategy) = "crawl"

\* the page budget of the call: options.maxPages, else the configured cap
PageBudget == IF options.maxPages # 0 THEN options.maxPages ELSE thisMaxPages

\* the pages of the site: a path that is no page answers 404 and has no link
SitePages == {NodePath(i) : i \in 0..(site.n - 1)}

\* the pages of the site not yet visited: no turn of the loop adds to them,
\* and a turn that visits none of them takes a path off the queue and puts
\* none on it
Unvisited == Cardinality(SitePages \ visited)

\* C1: on every site, cyclic or not, and for every seed list and budget, the
\* crawl terminates: each turn of the loop either visits a path not visited
\* before or shortens the queue, the loop is left as soon as its condition
\* fails, and the discovered list never holds more than min(pageBudget, 50)
\* paths.
C1_CrawlTerminatesBounded ==
    /\ [][(pc = "crawl" /\ pc' = "crawl")
            => \/ Unvisited' < Unvisited
               \/ Unvisited' = Unvisited /\ Len(toVisit') < Len(toVisit)]_vars
    /\ [][pc = "crawl" => pc' \in {"crawl", "done"}]_vars
    /\ []((IsCrawl /\ pc \in {"crawl", "done"})
            => Len(discovered) <= Min(PageBudget, 50))

\* a crawl of a ring of more than 50 pages, stopped by the cap of 50 under
\* a larger budget
C1_Witness ==
    /\ IsCrawl
    /\ pc = "done"
    /\ outcome = "returned"
    /\ site.shape = "ring"
    /\ site.n > 50
    /\ PageBudget > 50
    /\ Len(discovered) = 50
    /\ toVisit # <<>>

-----------------------------------------------------------------------------
(* Properties of the coordinator *)

IsSitemap == strategy # NullStrategy /\ StrategyLower(strategy) = "sitemap"

IsPaths == strategy # NullStrategy /\ StrategyLower(strategy) = "paths"

\* C2: discoverPages never raises to its caller: whatever the strategy and
\* whatever fails inside it, the call ends by returning a list, and when an
\* error reached the coordinator that list is exactly ['/'].
C2_NeverRaises ==
    /\ outcome # "raised"
    /\ (pc = "done") => (outcome = "returned")
    /\ (pc = "done" /\ caught) => (result = <<<<"/">>>>)

\* a sitemap resolution that ran out of candidates, caught by discoverPages
C2_Witness ==
    /\ pc = "done"
    /\ caught
    /\ IsSitemap
    /\ Len(fetched) >= Len(sitemapUrls)
    /\ outcome = "returned"

\* C3: whenever the strategy produces no usable path the coordinator falls
\* back to ['/'], so the list discoverPages returns is never empty.
C3_NeverEmpty == pc = "done" => result # <<>>

\* C4: the list discoverPages returns is no longer than options.maxPages of
\* the call, whenever that cap is given and positive.
C4_CappedByOptions ==
    (pc = "done" /\ ~options.isNull /\ options.maxPages > 0)
        => Len(result) <= options.maxPages

-----------------------------------------------------------------------------
(* Properties of the sitemap resolver *)

\* C8: parseSitemap never recurses deeper than a fixed bound (the spec's
\* example: 5), also on an index that names itself or a cycle of indexes.
C8_BoundedDepth == Len(stack) <= 5

\* what the specification says a document contributes: nothing when its
\* fetch fails or its text does not parse, its own-host paths when it is a
\* urlset, the contributions of its children in document order when it is
\* an index; `fuel` bounds the nesting followed
RECURSIVE RefPages(_, _)
RefPages(d, fuel) ==
    LET doc == DocOf(world, d)
        OwnHost(loc) == loc.t = "url" /\ loc.host = BaseHost
        kept == SelectSeq(doc.locs, OwnHost)
        RECURSIVE Concat(_)
        Concat(subs) ==
            IF subs = <<>> THEN <<>>
            ELSE (IF Head(subs) = 0 THEN <<>> ELSE RefPages(Head(subs), fuel - 1))
                    \o Concat(Tail(subs))
    IN  IF fuel = 0 \/ doc.status # "ok" THEN <<>>
        ELSE IF doc.kind = "urlset"
        THEN (IF \E i \in 1..Len(doc.locs) : doc.locs[i].t = "invalid"
              THEN <<>> ELSE [i \in 1..Len(kept) |-> kept[i].pathname])
        ELSE IF doc.kind = "index" THEN Concat(doc.subs)
        ELSE <<>>

\* the candidates fetched so far, in the order of their fetches
Tried ==
    LET cands == SelectSeq(fetched, LAMBDA f : f[1] = "candidate")
    IN  [i \in 1..Len(cands) |-> cands[i][2]]

\* C9: the candidate locations are fetched in the listed order, one after
\* the other; a resolution that returns pages returns those of the first
\* candidate that has any and fetches no later candidate; the 'no sitemap'
\* error is raised iff all four candidates were tried and skipped.
C9_CandidateOrder ==
    /\ Tried = [i \in 1..Len(Tried) |-> i]
    /\ Len(Tried) <= Len(sitemapUrls)
    /\ (IsSitemap /\ pc = "done") =>
          /\ \A i \in 1..(Len(Tried) - 1) : RefPages(i, MaxStack + 1) = <<>>
          /\ IF caught
             THEN /\ Len(Tried) = Len(sitemapUrls)
                  /\ RefPages(Len(Tried), MaxStack + 1) = <<>>
             ELSE /\ Len(Tried) >= 1
                  /\ pages = RefPages(Len(Tried), MaxStack + 1)
                  /\ pages # <<>>

\* the third candidate answers after a network error and an unparsable text
C9_Witness ==
    /\ IsSitemap
    /\ pc = "done"
    /\ ~caught
    /\ Tried = <<1, 2, 3>>
    /\ DocOf(world, 1).status = "neterr"
    /\ DocOf(world, 2).kind = "garbage"

\* C10: when parseSitemap returns for a sitemap index, its result is the
\* concatenation, in document order, of the pages of every child that could
\* be fetched and parsed; a child that fails adds nothing and stops no other.
C10_IndexConcatenation ==
    (pc = "parse" /\ stack # <<>>) =>
        ((FrameDone(Top) /\ DocOf(world, Top.doc).kind = "index")
            => Top.pages = RefPages(Top.doc, MaxStack + 1))

\* an index of three children: 3 URLs, 4 URLs of this host, and one that
\* does not parse: 7 paths
C10_Witness ==
    /\ pc = "parse"
    /\ Len(stack) = 1
    /\ FrameDone(Top)
    /\ DocOf(world, Top.doc).subs = <<5, 6, 7>>
    /\ DocOf(world, 5) = Set3
    /\ DocOf(world, 6) = Set4
    /\ DocOf(world, 7) = Garbage
    /\ Len(Top.pages) = 7

\* the documents fetched so far during the sitemap resolution
FetchedDocs == {DocOf(world, fetched[i][2]) : i \in 1..Len(fetched)}

\* the pathnames of the <loc>s of a document whose host is that of baseUrl
OwnPathnames(doc) ==
    {doc.locs[i].pathname :
        i \in {j \in 1..Len(doc.locs) :
                 doc.locs[j].t = "url" /\ doc.locs[j].host = BaseHost}}

\* a document has a <loc> of another host
HasForeign(doc) ==
    \E i \in 1..Len(doc.locs) :
        doc.locs[i].t = "url" /\ doc.locs[i].host # BaseHost

AllOwnPaths(pgs) ==
    \A i \in 1..Len(pgs) : \E doc \in FetchedDocs : pgs[i] \in OwnPathnames(doc)

\* C11: every path that sitemap resolution collects or returns is the
\* pathname of a <loc> whose hostname is that of baseUrl, in a document it
\* fetched; a <loc> of another host adds no path and makes no call fail.
C11_SameHostOnly ==
    /\ \A k \in 1..Len(stack) :
          /\ AllOwnPaths(stack[k].pages)
          /\ (HasForeign(DocOf(world, stack[k].doc))
                /\ ~\E i \in 1..Len(DocOf(world, stack[k].doc).locs) :
                       DocOf(world, stack[k].doc).locs[i].t = "invalid")
                => ~stack[k].failed
    /\ (IsSitemap /\ pc = "done" /\ ~caught) => AllOwnPaths(pages)

\* the first candidate lists /a on this host and /b on another: /b is left out
C11_Witness ==
    /\ IsSitemap
    /\ pc = "done"
    /\ ~caught
    /\ Tried = <<1>>
    /\ DocOf(world, 1) = SetA
    /\ pages = <<<<"/", "a">>, <<"/">>>>

-----------------------------------------------------------------------------
(* Order of the crawl *)

\* breadth-first search by the book: the discovered list a first-in
\* first-out traversal from `queue` reaches within `budget` pages
RECURSIVE RefBfs(_, _, _)
RefBfs(queue, disc, budget) ==
    IF queue = <<>> \/ Len(disc) >= budget THEN disc
    ELSE LET p     == Head(queue)
             rest  == Tail(queue)
             links == extractLinksFromPage(Fetch(site, p), p)
             fresh == SelectSeq(links,
                         LAMBDA l : l # p /\ ~Includes(disc, l) /\ ~Includes(rest, l))
         IN  IF Includes(disc, p) THEN RefBfs(rest, disc, budget)
             ELSE RefBfs(rest \o fresh, Append(disc, p), budget)

\* s is the start of t
IsPrefix(s, t) == Len(s) <= Len(t) /\ SubSeq(t, 1, Len(s)) = s

\* C12: the crawl is a first-in first-out traversal and a function of its
\* inputs: the queue starts as the seeds in order, each turn takes the head
\* of the queue and puts the page's new links, in extraction order, behind
\* all that is queued, and the list returned is the one a breadth-first
\* search of the same site from the same seeds gives.
C12_BreadthFirstDeterministic ==
    /\ [][(pc = "start" /\ pc' = "crawl") =>
            (toVisit' = IF options.startPaths.given THEN options.startPaths.v
                        ELSE <<<<"/">>>>)]_vars
    /\ [][(pc = "crawl" /\ pc' = "crawl") =>
            /\ IsPrefix(Tail(toVisit), toVisit')
            /\ discovered' \in {discovered, Append(discovered, Head(toVisit))}
            /\ LET added == SubSeq(toVisit', Len(toVisit), Len(toVisit'))
                    links == extractLinksFromPage(Fetch(site, Head(toVisit)),
                                                  Head(toVisit))
               IN  added = IF discovered' = discovered THEN <<>>
                           ELSE SelectSeq(links,
                                    LAMBDA l : /\ l \notin visited'
                                               /\ ~Includes(Tail(toVisit), l))]_vars
    /\ []((IsCrawl /\ pc = "done" /\ ~caught) =>
            discovered = RefBfs(IF options.startPaths.given
                                THEN options.startPaths.v ELSE <<<<"/">>>>,
                                <<>>, Min(PageBudget, CrawlCap)))

\* a tree of more than 50 pages crawled level by level: /, /1, /2, /3
C12_Witness ==
    /\ IsCrawl
    /\ pc = "done"
    /\ ~caught
    /\ site.shape = "tree"
    /\ site.n > 3
    /\ Len(discovered) >= 4
    /\ SubSeq(discovered, 1, 4) = <<<<"/">>, <<"/", "1">>, <<"/", "2">>, <<"/", "3">>>>

-----------------------------------------------------------------------------
(* Failures during the crawl *)

NoDuplicates(seq) ==
    \A i, j \in 1..Len(seq) : seq[i] = seq[j] => i = j

Elements(seq) == {seq[i] : i \in 1..Len(seq)}

\* the fetch of the page at `path` failed: network error, non-2xx status or
\* a content type that is not HTML
FetchFailed(path) == Fetch(site, path).status # "ok"

\* C13: a page whose fetch fails does not abort the crawl and stays marked
\* visited: the discovered list has no duplicates and holds exactly the
\* visited paths, no page is requested twice, and a crawl that ends within
\* its budget has emptied its queue and visited every seed and every link
\* of every page it could read.
C13_FailureIsolated ==
    IsCrawl =>
        /\ NoDuplicates(discovered)
        /\ Elements(discovered) = visited
        /\ NoDuplicates(pageFetches)
        /\ pageFetches = discovered
        /\ (pc = "done" /\ ~options.isNull) => ~caught
        /\ (pc = "done" /\ ~caught /\ Len(discovered) < crawlMax) =>
              /\ toVisit = <<>>
              /\ options.startPaths.given =>
                    Elements(options.startPaths.v) \subseteq visited
              /\ \A p \in visited :
                    Elements(extractLinksFromPage(Fetch(site, p), p))
                        \subseteq visited

\* the first seed's page fails with a network error and the seed queued
\* behind it is still crawled
C13_Witness ==
    /\ IsCrawl
    /\ pc = "done"
    /\ ~caught
    /\ Len(discovered) >= 2
    /\ FetchFailed(discovered[1])
    /\ site.failAs = "neterr"
    /\ discovered[1] \in {NodePath(i) : i \in 0..(site.n - 1)}
    /\ ~FetchFailed(discovered[2])

-----------------------------------------------------------------------------
(* Link filter of the crawl *)

\* a path the crawl is to leave alone: it contains /admin, /api/, /logout or
\* /download, or ends in one of the file extensions
SensitivePath(path) ==
    \/ \E frag \in SkipFragments : Contains(path, frag)
    \/ \E ext \in SkipExtensions : EndsWith(LowerCase(path), ext)

\* the seeds of the call, which are no extracted links
SeedPaths ==
    IF options.startPaths.given THEN Elements(options.startPaths.v) ELSE {<<"/">>}

\* C14: no link taken from a page is queued or discovered when it resolves
\* to a path with a sensitive pattern or a file extension, whatever the form
\* of its href: root-relative, absolute on this host or document-relative.
C14_NoSensitiveLink ==
    IsCrawl =>
        \A p \in (Elements(toVisit) \cup Elements(discovered)) \ SeedPaths :
            ~SensitivePath(p)

-----------------------------------------------------------------------------
(* Manual paths *)

\* a line that names no page: blank, or a comment
IgnoredLine(line) == Trim(line) = <<>> \/ StartsWith(Trim(line), <<"#">>)

\* the lines of options.paths that name a page, in order
UsableLines ==
    LET given == PathsOrEmpty(options.paths)
        lines == IF given.kind = "string"
                 THEN LET split == SplitLines(given.str, <<>>)
                      IN  [i \in 1..Len(split) |-> Trim(split[i])]
                 ELSE IF given.kind = "array"
                 THEN LET strs == SelectSeq(given.arr, IsString)
                      IN  [i \in 1..Len(strs) |-> strs[i].s]
                 ELSE <<>>
    IN  SelectSeq(lines, LAMBDA l : ~IgnoredLine(l))

\* C15: for the paths strategy, blank lines and lines that start with '#'
\* contribute no page, whether the paths come as one newline-delimited
\* string or as a list of lines: the pages are those of the other lines.
C15_CommentsIgnored ==
    (IsPaths /\ pc = "done" /\ ~caught) =>
        /\ \A i \in 1..Len(pages) : ~IgnoredLine(pages[i])
        /\ result = LimitPages(normalizePaths(AsJs(UsableLines)), thisMaxPages)

-----------------------------------------------------------------------------
(* Two discoverByCrawling calls on one PageDiscovery: this.visited and      *)
(* this.discovered are fields of the object, the queue and the budget are   *)
(* locals of each call; a call yields at the fetch of a page and at the     *)
(* sleep that follows it.                                                   *)

\* a call not yet started, with the options it is given
NewCrawl(opts) ==
    [pc |-> "new", opts |-> opts, toVisit |-> <<>>, maxPages |-> 0,
     path |-> <<>>, returned |-> <<>>]

\* lines 189-199: the loop run from its test to the next page to fetch
\* (done FALSE, the page at `path`) or to its end (done TRUE)
RECURSIVE LoopToFetch(_, _, _, _)
LoopToFetch(queue, vis, disc, max) ==
    IF queue = <<>> \/ Len(disc) >= max
    THEN [done |-> TRUE, queue |-> queue, vis |-> vis, disc |-> disc,
          path |-> <<>>]
    ELSE IF Head(queue) \in vis
    THEN LoopToFetch(Tail(queue), vis, disc, max)
    ELSE [done |-> FALSE, queue |-> Tail(queue),
          vis |-> MarkVisited(vis, Head(queue)),
          disc |-> Append(disc, Head(queue)), path |-> Head(queue)]

\* the call c goes on from the loop test with the queue `queue`: to the
\* fetch of the next page, or to `return this.discovered` (line 221)
RunLoop(c, queue, vis, disc, max) ==
    LET r == LoopToFetch(queue, vis, disc, max)
    IN  /\ visited' = r.vis
        /\ discovered' = r.disc
        /\ pageFetches' = IF r.done THEN pageFetches
                          ELSE Append(pageFetches, r.path)
        /\ crawls' = [crawls EXCEPT
                        ![c].pc = IF r.done THEN "done" ELSE "fetching",
                        ![c].toVisit = r.queue,
                        ![c].maxPages = max,
                        ![c].path = r.path,
                        ![c].returned = IF r.done THEN r.disc ELSE <<>>]

\* lines 180-203: the call starts, empties the object's visited set and
\* discovered list, and runs to its first fetch
CrawlBegin(c) ==
    /\ crawls[c].pc = "new"
    /\ RunLoop(c,
               IF crawls[c].opts.startPaths.given
               THEN crawls[c].opts.startPaths.v ELSE <<<<"/">>>>,
               {}, <<>>,
               Min(IF crawls[c].opts.maxPages # 0
                   THEN crawls[c].opts.maxPages ELSE thisMaxPages, CrawlCap))
    /\ UNCHANGED <<nvars, scanvars, scorevars, aggvars, latevars, svars, dvars,
                   toVisit, crawlMax>>

\* lines 203-213: the page has answered, its new links are queued, the
\* call sleeps
CrawlFetched(c) ==
    /\ crawls[c].pc = "fetching"
    /\ crawls' = [crawls EXCEPT
                    ![c].pc = "sleeping",
                    ![c].toVisit =
                        Enqueue(@, extractLinksFromPage(
                                       Fetch(site, crawls[c].path),
                                       crawls[c].path),
                                visited)]
    /\ UNCHANGED <<nvars, scanvars, scorevars, aggvars, latevars, svars, dvars, cvars>>

\* lines 213 and 189-203: the sleep is over, the loop goes on
CrawlWake(c) ==
    /\ crawls[c].pc = "sleeping"
    /\ RunLoop(c, crawls[c].toVisit, visited, discovered, crawls[c].maxPages)
    /\ UNCHANGED <<nvars, scanvars, scorevars, aggvars, latevars, svars, dvars,
                   toVisit, crawlMax>>

\* the sites and the options of the two calls
TwoSites ==
    {st \in SmallSites : st.n = 3 /\ st.fail = {} /\ st.shape # "mixed"}

TwoOptions ==
    {Options(m, sd, PathsAbsent) :
        m \in {0, 1, 3},
        sd \in {NoSeeds, Seeds(<<<<"/", "1">>>>)}}

InitTwo ==
    /\ NormIdle
    /\ ScanIdle
    /\ ScoreIdle
    /\ AggIdle
    /\ LateIdle
    /\ strategy = "crawl"
    /\ options = NoOptions
    /\ thisMaxPages = DefaultMaxPages
    /\ site \in TwoSites
    /\ pc = "idle"
    /\ pages = <<>>
    /\ result = <<>>
    /\ outcome = "pending"
    /\ caught = FALSE
    /\ toVisit = <<>>
    /\ visited = {}
    /\ discovered = <<>>
    /\ crawlMax = 0
    /\ pageFetches = <<>>
    /\ world = NoWorld
    /\ candIdx = 0
    /\ fetched = <<>>
    /\ stack = <<>>
    /\ crawls \in {<<NewCrawl(o1), NewCrawl(o2)>> : o1, o2 \in TwoOptions}

NextTwo ==
    \E c \in 1..2 :
        \/ CrawlBegin(c)
        \/ CrawlFetched(c)
        \/ CrawlWake(c)

SpecTwo == InitTwo /\ [][NextTwo]_vars

\* the budget of call c
BudgetOf(c) ==
    Min(IF crawls[c].opts.maxPages # 0 THEN crawls[c].opts.maxPages
        ELSE thisMaxPages, CrawlCap)

\* C16: two crawls whose steps interleave on one PageDiscovery do not
\* interfere: each returns the sequence it returns when it runs alone.
C16_NoInterference ==
    \A c \in 1..Len(crawls) :
        crawls[c].pc = "done" =>
            crawls[c].returned =
                RefBfs(IF crawls[c].opts.startPaths.given
                       THEN crawls[c].opts.startPaths.v ELSE <<<<"/">>>>,
                       <<>>, BudgetOf(c))

-----------------------------------------------------------------------------
(* Scan Executor: AdaAccessibilityAction.executeScans                        *)

\* most pages handed to executeScans
MaxScanPages == 3

\* this.inputs.serverUrl
ServerUrl == <<"h", "t", "t", "p", ":", "/", "/", "h">>

\* line 879: the URL scanned for a page
FullUrl(page) ==
    IF StartsWith(page, <<"h", "t", "t", "p">>) THEN page ELSE ServerUrl \o page

\* what POST /scan-sync can do for one page: answer 200 with the scan
\* result as JSON, answer 200 with a body that is no JSON, answer 500 (the
\* scan threw), fail as a request (network error), or never answer
ScanOk(score, violationCount, passCount) ==
    [kind |-> "ok", score |-> score, violationCount |-> violationCount,
     passCount |-> passCount]
ScanNot(kind) ==
    [kind |-> kind, score |-> 0, violationCount |-> 0, passCount |-> 0]

ScanAnswers ==
    {ScanOk(100, 0, 3), ScanOk(25, 2, 1), ScanNot("badjson"),
     ScanNot("non2xx"), ScanNot("neterr"), ScanNot("hang")}

\* scanner-service.js lines 246-257: the body of a 200 answer
CompletedResult(url, answer) ==
    [url |-> url, status |-> "completed", error |-> "",
     score |-> answer.score, violationCount |-> answer.violationCount,
     passCount |-> answer.passCount]

\* error.message of what the try block of lines 883-908 throws
FailureReason(kind) ==
    CASE kind = "non2xx"  -> "Scanner returned 500"
      [] kind = "neterr"  -> "request to scanner failed"
      [] kind = "badjson" -> "invalid json response body"
      [] OTHER            -> ""

\* a failed scan recorded with the score of a scan that passed
FailedResult_FullScore(url, reason) ==
    [url |-> url, status |-> "failed", error |-> reason,
     score |-> 100, violationCount |-> 0, passCount |-> 0]

\* lines 911-916: the result recorded for a page whose scan failed
FailedResult(url, reason) ==
    [url |-> url, status |-> "failed", error |-> reason,
     score |-> 0, violationCount |-> 0, passCount |-> 0]

\* the new result put before the others
PushResult_Front(results, r) == <<r>> \o results

\* lines 906 and 911: results.push(...)
PushResult(results, r) == Append(results, r)

\* lines 878-899: the loop takes the next page and posts its scan request
ScanRequest ==
    /\ scanPc = "loop"
    /\ scanIdx <= Len(scanPages)
    /\ requests' = Append(requests, FullUrl(scanPages[scanIdx]))
    /\ inFlight' = inFlight \cup {scanIdx}
    /\ scanPc' = "waiting"
    /\ UNCHANGED <<nvars, dvars, cvars, svars, tvars, scorevars, aggvars, latevars,
                   scanPages, scanner, scanIdx, scanResults>>

\* lines 901-908: the scanner answers 200 with a result, which is pushed
ScanCompleted ==
    /\ scanPc = "waiting"
    /\ scanner[scanIdx].kind = "ok"
    /\ scanResults' =
          PushResult(scanResults,
                     CompletedResult(FullUrl(scanPages[scanIdx]), scanner[scanIdx]))
    /\ inFlight' = inFlight \ {scanIdx}
    /\ scanIdx' = scanIdx + 1
    /\ scanPc' = "loop"
    /\ UNCHANGED <<nvars, dvars, cvars, svars, tvars, scorevars, aggvars, latevars,
                   scanPages, scanner, requests>>

\* lines 901-903 and 909-917: the request fails, the answer is not 2xx or
\* its body is no JSON: the catch block pushes a failed result
ScanFailed ==
    /\ scanPc = "waiting"
    /\ scanner[scanIdx].kind \in {"non2xx", "neterr", "badjson"}
    /\ scanResults' =
          PushResult(scanResults,
                     FailedResult(FullUrl(scanPages[scanIdx]),
                                  FailureReason(scanner[scanIdx].kind)))
    /\ inFlight' = inFlight \ {scanIdx}
    /\ scanIdx' = scanIdx + 1
    /\ scanPc' = "loop"
    /\ UNCHANGED <<nvars, dvars, cvars, svars, tvars, scorevars, aggvars, latevars,
                   scanPages, scanner, requests>>

\* line 920: the loop is over, results is returned
ScanReturn ==
    /\ scanPc = "loop"
    /\ scanIdx > Len(scanPages)
    /\ scanPc' = "done"
    /\ UNCHANGED <<nvars, dvars, cvars, svars, tvars, scorevars, aggvars, latevars,
                   scanPages, scanner, scanIdx, inFlight, scanResults, requests>>

\* page k of a list scanned: a path of the server, every third an absolute URL
ScanPage(k) ==
    IF k % 3 = 0 THEN <<"h", "t", "t", "p", ":", "/", "/", "x">> \o NodePath(k)
    ELSE NodePath(k - 1)

\* the lists of pages scanned, in both orders
ScanPageLists ==
    {[i \in 1..k |-> ScanPage(i)] : k \in 0..MaxScanPages}
        \cup {[i \in 1..k |-> ScanPage(k + 1 - i)] : k \in 0..MaxScanPages}

InitScan ==
    /\ NormIdle
    /\ DiscoveryIdle
    /\ TwoIdle
    /\ ScoreIdle
    /\ AggIdle
    /\ LateIdle
    /\ scanPages \in ScanPageLists
    /\ scanner \in [1..Len(scanPages) -> ScanAnswers]
    /\ scanPc = "loop"
    /\ scanIdx = 1
    /\ inFlight = {}
    /\ scanResults = <<>>
    /\ requests = <<>>

NextScan ==
    \/ ScanRequest
    \/ ScanCompleted
    \/ ScanFailed
    \/ ScanReturn

SpecScan == InitScan /\ [][NextScan]_vars

\* every step the code can take is taken in the end: the event loop runs
\* each continuation whose await has settled
FairSpecScan == SpecScan /\ WF_vars(NextScan)

-----------------------------------------------------------------------------
(* Properties of the scan loop *)

\* C17: executeScans scans one page at a time: at most one request is
\* outstanding, the request for a page is issued only when every page
\* before it has its result, and the sequence returned has one result per
\* input page, in input order, whichever pages failed.
C17_OneAtATime ==
    /\ Cardinality(inFlight) <= 1
    /\ Len(requests) = Len(scanResults) + Cardinality(inFlight)
    /\ \A i \in 1..Len(requests) : requests[i] = FullUrl(scanPages[i])
    /\ \A i \in 1..Len(scanResults) : scanResults[i].url = FullUrl(scanPages[i])
    /\ scanPc = "done" =>
          /\ Len(scanResults) = Len(scanPages)
          /\ inFlight = {}

\* three pages scanned, the second failed, the third completed
C17_Witness ==
    /\ scanPc = "done"
    /\ Len(scanPages) = 3
    /\ Len(scanResults) = 3
    /\ scanResults[1].status = "completed"
    /\ scanResults[2].status = "failed"
    /\ scanResults[3].status = "completed"

\* C18: when the scan call of a page fails, by a network error or a
\* non-2xx answer, the page's result has status 'failed', score 0, no
\* violation and no pass counted, and the reason of the failure; the
\* pages after it are scanned all the same.
C18_FailureRecorded ==
    /\ \A i \in 1..Len(scanResults) :
          scanner[i].kind \in {"non2xx", "neterr"} =>
              /\ scanResults[i].status = "failed"
              /\ scanResults[i].score = 0
              /\ scanResults[i].violationCount = 0
              /\ scanResults[i].passCount = 0
              /\ scanResults[i].error = FailureReason(scanner[i].kind)
              /\ scanResults[i].error # ""
    /\ (scanPc = "loop" /\ scanIdx <= Len(scanPages)) => ENABLED ScanRequest
    /\ scanPc = "done" => Len(scanResults) = Len(scanPages)

\* the scanner answers 500 for the first page, the network fails for the
\* second, and the third is scanned
C18_Witness ==
    /\ scanPc = "done"
    /\ Len(scanResults) = 3
    /\ scanner[1].kind = "non2xx"
    /\ scanner[2].kind = "neterr"
    /\ scanResults[1].status = "failed"
    /\ scanResults[2].status = "failed"
    /\ scanResults[3].status = "completed"

\* C19: every network call has a timeout of its own, so a dependency that
\* never answers cannot stop progress: a scan request that is outstanding
\* returns or fails in the end, and the loop goes on to the next page.
C19_ScanCallReturns == (scanPc = "waiting") ~> (scanPc # "waiting")

-----------------------------------------------------------------------------
(* Score: ScannerService.calculateScore (scanner-service.js)                 *)

\* most passes, most violations, and most nodes of a violation, in one
\* axe result
MaxPasses == 2
MaxViolations == 2
MaxNodes == 3

\* line 347: the weight every test is taken to be able to have
CriticalWeight == 4

\* every impact weighed alike
ImpactWeight_Flat(impact) == 1

\* lines 336-341: the weight of an impact, 1 for one the table lacks
ImpactWeight(impact) ==
    CASE impact = "critical" -> 4
      [] impact = "serious"  -> 3
      [] impact = "moderate" -> 2
      [] impact = "minor"    -> 1
      [] OTHER               -> 1

\* lines 334-344: the sum of weight times affected nodes
RECURSIVE WeightedViolations(_)
WeightedViolations(violations) ==
    IF violations = <<>> THEN 0
    ELSE ImpactWeight(Head(violations).impact) * Head(violations).nodes
            + WeightedViolations(Tail(violations))

\* Math.round(num / den) for den > 0: the nearest integer, a half goes up
Round(num, den) == (2 * num + den) \div (2 * den)

\* the score returned as computed, below 0 when the weights exceed the most
Clamp_None(x) == x

\* line 350: Math.max(0, Math.min(100, score))
Clamp(x) == IF x < 0 THEN 0 ELSE IF x > 100 THEN 100 ELSE x

\* the weight of the violations taken for the weight left
Remaining_Violations(maxPossibleWeight, weightedViolations) == weightedViolations

\* line 348: maxPossibleWeight - weightedViolations
Remaining(maxPossibleWeight, weightedViolations) ==
    maxPossibleWeight - weightedViolations

\* calculateScore(results), lines 329-351; passes is results.passes.length
calculateScore(results) ==
    LET totalTests == results.passes + Len(results.violations)
        weightedViolations == WeightedViolations(results.violations)
        maxPossibleWeight == totalTests * CriticalWeight
    IN  IF totalTests = 0 THEN 100
        ELSE Clamp(Round(Remaining(maxPossibleWeight, weightedViolations) * 100,
                         maxPossibleWeight))

\* the violations of an axe result: an impact, null among them, and the
\* number of nodes affected
Violations ==
    [impact : {"critical", "serious", "moderate", "minor", "null"},
     nodes : 0..MaxNodes]

InitScore ==
    /\ NormIdle
    /\ DiscoveryIdle
    /\ TwoIdle
    /\ ScanIdle
    /\ AggIdle
    /\ LateIdle
    /\ axeResults \in
          [passes : 0..MaxPasses,
           violations : UNION {[1..k -> Violations] : k \in 0..MaxViolations}]
    /\ scoreOut = 0
    /\ scorePc = "call"

\* the call calculateScore(axeResults)
ScoreCall ==
    /\ scorePc = "call"
    /\ scoreOut' = calculateScore(axeResults)
    /\ scorePc' = "returned"
    /\ UNCHANGED <<nvars, dvars, cvars, svars, tvars, scanvars, aggvars, latevars,
                   axeResults>>

NextScore == ScoreCall

SpecScore == InitScore /\ [][NextScore]_vars

\* C20: calculateScore returns an integer from 0 to 100 whatever the passes
\* and violations; 100 when there are none of either, and 0 for one
\* critical violation of one node with no pass.
C20_ScoreInRange ==
    scorePc = "returned" =>
        /\ scoreOut \in 0..100
        /\ (axeResults.passes = 0 /\ axeResults.violations = <<>>) => scoreOut = 100
        /\ (axeResults.passes = 0
              /\ axeResults.violations = <<[impact |-> "critical", nodes |-> 1]>>)
                => scoreOut = 0

\* one critical violation of three nodes and no pass: the weights exceed
\* the most possible and the score is held at 0
C20_Witness ==
    /\ scorePc = "returned"
    /\ axeResults.passes = 0
    /\ axeResults.violations = <<[impact |-> "critical", nodes |-> 3]>>
    /\ scoreOut = 0

-----------------------------------------------------------------------------
(* The score against its definition *)

\* the sum of f[i] for i in 1..n
RECURSIVE SumTo(_, _)
SumTo(f, n) == IF n = 0 THEN 0 ELSE f[n] + SumTo(f, n - 1)

\* the score as defined: weights 4, 3, 2, 1 and 1 for any other impact, the
\* nearest integer to 100 (4T - W) / 4T, held within 0..100
RefScore(results) ==
    LET T == results.passes + Len(results.violations)
        weight == [critical |-> 4, serious |-> 3, moderate |-> 2, minor |-> 1]
        w(v) == IF v.impact \in DOMAIN weight THEN weight[v.impact] ELSE 1
        W == SumTo([i \in 1..Len(results.violations) |->
                       w(results.violations[i]) * results.violations[i].nodes],
                   Len(results.violations))
        exact2 == 200 * (4 * T - W)     \* twice the score, times 4T
        nearest == CHOOSE n \in -2000..100 :
                      /\ 2 * n * 4 * T <= exact2 + 4 * T
                      /\ 2 * (n + 1) * 4 * T > exact2 + 4 * T
    IN  IF nearest < 0 THEN 0 ELSE IF nearest > 100 THEN 100 ELSE nearest

\* C21: for every input with at least one test, calculateScore is the score
\* as defined: total tests passes plus violations, violations weighed by
\* impact times affected nodes, the most possible weight 4 per test, the
\* rounded percentage of weight left, held within 0..100.
C21_ScoreFormula ==
    (scorePc = "returned"
        /\ axeResults.passes + Len(axeResults.violations) >= 1)
            => scoreOut = RefScore(axeResults)

\* two passes, a serious violation of one node and a moderate one of three:
\* 16 - 9 of 16 left, 43.75, which rounds to 44
C21_Witness ==
    /\ scorePc = "returned"
    /\ axeResults.passes = 2
    /\ axeResults.violations =
          <<[impact |-> "serious", nodes |-> 1], [impact |-> "moderate", nodes |-> 3]>>
    /\ scoreOut = 44

\* the results with one more node affected by violation i
MoreNodes(results, i) ==
    [results EXCEPT !.violations[i].nodes = @ + 1]

\* C22: for fixed passes and violations, one more node affected by any one
\* violation never raises the score.
C22_MonotoneInNodes ==
    scorePc = "returned" =>
        \A i \in 1..Len(axeResults.violations) :
            calculateScore(MoreNodes(axeResults, i)) <= scoreOut

\* a score that one more affected node lowers
C22_Witness ==
    /\ scorePc = "returned"
    /\ Len(axeResults.violations) = 2
    /\ scoreOut > 0
    /\ calculateScore(MoreNodes(axeResults, 2)) < scoreOut

\* the impacts in rising order of weight
Heavier(impact) ==
    CASE impact = "minor"    -> {"moderate", "serious", "critical"}
      [] impact = "moderate" -> {"serious", "critical"}
      [] impact = "serious"  -> {"critical"}
      [] OTHER               -> {}

\* violations as the engine reports them: each affects at least one node
Reported == {v \in Violations : v.nodes >= 1}

\* C23: for fixed passes, one more violation, or a heavier impact of a
\* violation there is, gives a strictly smaller score.
C23_StrictlyLower ==
    (scorePc = "returned"
        /\ \A i \in 1..Len(axeResults.violations) :
              axeResults.violations[i] \in Reported) =>
        /\ \A v \in Reported :
              calculateScore([axeResults EXCEPT
                                !.violations = Append(@, v)]) < scoreOut
        /\ \A i \in 1..Len(axeResults.violations) :
              \A h \in Heavier(axeResults.violations[i].impact) :
                  calculateScore([axeResults EXCEPT
                                    !.violations[i].impact = h]) < scoreOut

-----------------------------------------------------------------------------
(* aggregateResults of the action (README.md, index.js): the report over   *)
(* the results of executeScans.  A property that may be absent is a        *)
(* sequence, empty when the property is absent (or null) and of the one    *)
(* value otherwise.                                                        *)

MaxResults == 3

None == <<>>
Some(x) == <<x>>

\* a || d for a number a that may be absent: 0 is as good as absent
OrElse(a, d) == IF a # None /\ a[1] # 0 THEN a[1] ELSE d

\* reduce((sum, x) => sum + x, 0) over the values q
RECURSIVE SumSeq(_)
SumSeq(q) == IF q = <<>> THEN 0 ELSE Head(q) + SumSeq(Tail(q))

\* every status counted as 'completed'
IsCompleted_Any(r) == TRUE

\* line 930: r.status === 'completed'
IsCompleted(r) == r.status = "completed"

\* line 931: r.status === 'failed'
IsFailed(r) == r.status = "failed"

\* lines 943, 998, 1025: scan.enhancedAnalysis is there
Annotated(scan) == scan.enhancedAnalysis # None

\* some scan taken as annotated whatever it carries
HasEnhanced_Always(completedScans) == TRUE

\* line 943: completedScans.some(r => r.enhancedAnalysis)
HasEnhanced(completedScans) ==
    \E i \in 1..Len(completedScans) : Annotated(completedScans[i])

\* lines 937-939: r.enhancedAnalysis?.enhancedScore || r.summary.score
EffectiveScore(r) ==
    IF Annotated(r)
    THEN OrElse(r.enhancedAnalysis[1].enhancedScore, r.summary.score)
    ELSE r.summary.score

\* line 940: the rounded mean, 0 of no completed scan
AverageScore(completedScans) ==
    LET totalScore ==
            SumSeq([i \in 1..Len(completedScans) |->
                        EffectiveScore(completedScans[i])])
    IN  IF Len(completedScans) > 0
        THEN Round(totalScore, Len(completedScans)) ELSE 0

\* line 956: violation.nodeCount || violation.nodes?.length || 1
NodesCounted(violation) ==
    OrElse(violation.nodeCount, OrElse(violation.nodes, 1))

\* lines 946-959: the violations of one list added to the severities
RECURSIVE AddViolations(_, _)
AddViolations(bySeverity, violations) ==
    IF violations = <<>> THEN bySeverity
    ELSE LET violation == Head(violations)
         IN  AddViolations(
                 IF violation.impact \in DOMAIN bySeverity
                 THEN [bySeverity EXCEPT
                          ![violation.impact] = @ + NodesCounted(violation)]
                 ELSE bySeverity,
                 Tail(violations))

\* lines 953-959: over the completed scans in order
RECURSIVE GroupBySeverity(_, _)
GroupBySeverity(bySeverity, completedScans) ==
    IF completedScans = <<>> THEN bySeverity
    ELSE GroupBySeverity(AddViolations(bySeverity, Head(completedScans).violations),
                         Tail(completedScans))

\* scan.enhancedAnalysis.businessImpact?.riskLevel
RiskLevel(scan) ==
    LET businessImpact == scan.enhancedAnalysis[1].businessImpact
    IN  IF businessImpact = None THEN None ELSE businessImpact[1].riskLevel

\* 'medium' looked for before 'high'
HighestRisk_MediumFirst(riskLevels) ==
    IF \E i \in 1..Len(riskLevels) : riskLevels[i] = Some("medium") THEN "medium"
    ELSE IF \E i \in 1..Len(riskLevels) : riskLevels[i] = Some("high") THEN "high"
    ELSE "low"

\* lines 1003-1004
HighestRisk(riskLevels) ==
    IF \E i \in 1..Len(riskLevels) : riskLevels[i] = Some("high") THEN "high"
    ELSE IF \E i \in 1..Len(riskLevels) : riskLevels[i] = Some("medium") THEN "medium"
    ELSE "low"

\* lines 1007-1008: cost?.max || 0
CostMax(scan) ==
    LET businessImpact == scan.enhancedAnalysis[1].businessImpact
    IN  IF businessImpact = None
           \/ businessImpact[1].estimatedRemediationCost = None
        THEN 0
        ELSE OrElse(businessImpact[1].estimatedRemediationCost[1].max, 0)

TopAreas == 3

\* lines 1071-1073: areaCount[area] = (areaCount[area] || 0) + 1, the
\* entries of areaCount kept in the order of their first writing
RECURSIVE CountAreas(_, _)
CountAreas(areaCount, areas) ==
    IF areas = <<>> THEN areaCount
    ELSE LET area == Head(areas)
             known == \E i \in 1..Len(areaCount) : areaCount[i].area = area
         IN  CountAreas(
                 IF known
                 THEN [i \in 1..Len(areaCount) |->
                          IF areaCount[i].area = area
                          THEN [areaCount[i] EXCEPT !.affectedPages = @ + 1]
                          ELSE areaCount[i]]
                 ELSE Append(areaCount, [area |-> area, affectedPages |-> 1]),
                 Tail(areas))

\* lines 1069-1070: the areas of the scans, one after another
RECURSIVE AllAreas(_)
AllAreas(scansWithAnalysis) ==
    IF scansWithAnalysis = <<>> THEN <<>>
    ELSE LET businessImpact == Head(scansWithAnalysis).enhancedAnalysis[1].businessImpact
         IN  (IF businessImpact = None THEN <<>> ELSE businessImpact[1].businessAreas)
                 \o AllAreas(Tail(scansWithAnalysis))

\* line 1077: sort(([,a], [,b]) => b - a), a stable sort
RECURSIVE SortByCount(_)
SortByCount(entries) ==
    IF entries = <<>> THEN <<>>
    ELSE LET sorted == SortByCount(SubSeq(entries, 1, Len(entries) - 1))
             e == entries[Len(entries)]
             before == SelectSeq(sorted, LAMBDA x : x.affectedPages >= e.affectedPages)
             after == SelectSeq(sorted, LAMBDA x : x.affectedPages < e.affectedPages)
         IN  before \o <<e>> \o after

\* lines 1066-1080
getTopBusinessAreas(scansWithAnalysis) ==
    LET sorted == SortByCount(CountAreas(<<>>, AllAreas(scansWithAnalysis)))
    IN  SubSeq(sorted, 1, Min(Len(sorted), TopAreas))

\* lines 997-1019; null is None
aggregateBusinessImpact(completedScans) ==
    LET scansWithAnalysis == SelectSeq(completedScans, Annotated)
        riskLevels == [i \in 1..Len(scansWithAnalysis) |->
                          RiskLevel(scansWithAnalysis[i])]
        totalEstimatedCost ==
            SumSeq([i \in 1..Len(scansWithAnalysis) |->
                        CostMax(scansWithAnalysis[i])])
    IN  IF Len(scansWithAnalysis) = 0 THEN None
        ELSE Some([overallRisk |-> HighestRisk(riskLevels),
                   pagesAtRisk |->
                       Len(SelectSeq(scansWithAnalysis,
                                     LAMBDA scan : RiskLevel(scan) = Some("high"))),
                   estimatedRemediationCost |-> totalEstimatedCost,
                   topBusinessAreas |-> getTopBusinessAreas(scansWithAnalysis)])

\* line 1090: issue.title + issue.description
IssueKey(issue) == issue.title \o issue.description

TopIssues == 5

\* lines 1086-1095: the issues whose key was not seen before, in order
RECURSIVE UniqueIssues(_, _, _)
UniqueIssues(issues, seen, unique) ==
    IF issues = <<>> THEN unique
    ELSE LET key == IssueKey(Head(issues))
         IN  IF key \in seen
             THEN UniqueIssues(Tail(issues), seen, unique)
             ELSE UniqueIssues(Tail(issues), seen \cup {key},
                               Append(unique, Head(issues)))

\* lines 1085-1098
deduplicateIssues(issues) ==
    LET unique == UniqueIssues(issues, {}, <<>>)
    IN  SubSeq(unique, 1, Min(Len(unique), TopIssues))

\* lines 1036-1042: one count of the estimated effort of a scan, 0 if the
\* effort or the count is not there
EffortOf(scan, field) ==
    LET remediationPlan == scan.enhancedAnalysis[1].remediationPlan
    IN  IF remediationPlan = None \/ remediationPlan[1].estimatedEffort = None
        THEN 0
        ELSE OrElse(remediationPlan[1].estimatedEffort[1][field], 0)

\* lines 1046-1047: the priority 1 issues of the scans, one after another
RECURSIVE AllPriority1(_)
AllPriority1(scansWithAnalysis) ==
    IF scansWithAnalysis = <<>> THEN <<>>
    ELSE LET remediationPlan == Head(scansWithAnalysis).enhancedAnalysis[1].remediationPlan
         IN  (IF remediationPlan = None THEN <<>> ELSE remediationPlan[1].priority1)
                 \o AllPriority1(Tail(scansWithAnalysis))

\* lines 1051-1055: Math.round(quick * 0.5 + medium * 4 + complex * 16)
EstimatedHours(quick, medium, complex) ==
    Round(quick + 8 * medium + 32 * complex, 2)

\* lines 1024-1061; null is None
aggregateRemediationPlan(completedScans) ==
    LET scansWithAnalysis == SelectSeq(completedScans, Annotated)
        total(field) == SumSeq([i \in 1..Len(scansWithAnalysis) |->
                                   EffortOf(scansWithAnalysis[i], field)])
    IN  IF Len(scansWithAnalysis) = 0 THEN None
        ELSE Some([totalQuickFixes |-> total("quickFixes"),
                   totalMediumFixes |-> total("mediumFixes"),
                   totalComplexFixes |-> total("complexFixes"),
                   topPriority1Issues |->
                       deduplicateIssues(AllPriority1(scansWithAnalysis)),
                   estimatedTotalHours |->
                       EstimatedHours(total("quickFixes"), total("mediumFixes"),
                                      total("complexFixes"))])

\* lines 980-990: the summary of one result
PageResult(r) ==
    [url |-> r.url,
     status |-> r.status,
     score |-> IF Annotated(r)
               THEN OrElse(r.enhancedAnalysis[1].enhancedScore, r.summary.score)
               ELSE r.summary.score,
     basicScore |-> r.summary.score,
     violations |-> r.summary.violationCount,
     enhancedAnalysis |->
         IF Annotated(r)
         THEN LET ea == r.enhancedAnalysis[1]
              IN  Some([riskLevel |-> RiskLevel(r),
                        userImpactPercentage |->
                            IF ea.businessImpact = None THEN None
                            ELSE ea.businessImpact[1].userImpactPercentage,
                        priority1Fixes |->
                            IF ea.remediationPlan = None THEN 0
                            ELSE Len(ea.remediationPlan[1].priority1)])
         ELSE None]

\* aggregateResults(scanResults), lines 928-992, but for the scanId
aggregateResults(results) ==
    LET completedScans == SelectSeq(results, IsCompleted)
        failedScans == SelectSeq(results, IsFailed)
    IN  [totalScans |-> Len(results),
         completedScans |-> Len(completedScans),
         failedScans |-> Len(failedScans),
         score |-> AverageScore(completedScans),
         totalViolations |->
             SumSeq([i \in 1..Len(completedScans) |->
                        completedScans[i].summary.violationCount]),
         totalPasses |->
             SumSeq([i \in 1..Len(completedScans) |->
                        completedScans[i].summary.passCount]),
         violationsBySeverity |->
             GroupBySeverity([critical |-> 0, serious |-> 0, moderate |-> 0,
                              minor |-> 0], completedScans),
         hasEnhancedAnalysis |-> HasEnhanced(completedScans),
         businessImpact |-> aggregateBusinessImpact(completedScans),
         remediationPlan |-> aggregateRemediationPlan(completedScans),
         pageResults |-> [i \in 1..Len(results) |-> PageResult(results[i])]]

\* what executeScans records for a page: the body of a 200 answer of the
\* scanner (scanner-service.js lines 246-274, the violations as
\* processViolations leaves them) ...
Completed(url, score, passCount, violations, enhancedAnalysis) ==
    [url |-> url, status |-> "completed",
     summary |-> [score |-> score, violationCount |-> Len(violations),
                  passCount |-> passCount],
     violations |-> violations, enhancedAnalysis |-> enhancedAnalysis]

\* ... or the record of lines 911-916, which has no violations and no
\* enhancedAnalysis
Failed(url) ==
    [url |-> url, status |-> "failed",
     summary |-> [score |-> 0, violationCount |-> 0, passCount |-> 0],
     violations |-> <<>>, enhancedAnalysis |-> None]

Violation(impact, nodeCount, nodes) ==
    [impact |-> impact, nodeCount |-> nodeCount, nodes |-> nodes]

Issue(title, description) == [title |-> title, description |-> description]

Impact(riskLevel, max, userImpactPercentage, businessAreas) ==
    Some([riskLevel |-> riskLevel,
          userImpactPercentage |-> userImpactPercentage,
          estimatedRemediationCost |-> Some([max |-> max]),
          businessAreas |-> businessAreas])

Effort(quickFixes, mediumFixes, complexFixes) ==
    Some([quickFixes |-> quickFixes, mediumFixes |-> mediumFixes,
          complexFixes |-> complexFixes])

Plan(estimatedEffort, priority1) ==
    Some([estimatedEffort |-> estimatedEffort, priority1 |-> priority1])

Analysis(enhancedScore, businessImpact, remediationPlan) ==
    Some([enhancedScore |-> enhancedScore, businessImpact |-> businessImpact,
          remediationPlan |-> remediationPlan])

\* the results the report is made of: a failed scan; completed scans with
\* no annotation, their violations with and without a node count; completed
\* scans with an annotation, full, partial and empty, one of them naming
\* a business area twice
Menu ==
    { Failed("/f"),
      Completed("/80", 80, 3, <<>>, None),
      Completed("/81", 81, 2, <<>>, None),
      Completed("/60", 60, 1,
                <<Violation("critical", Some(2), Some(2)),
                  Violation("minor", None, Some(3))>>, None),
      Completed("/75", 75, 0,
                <<Violation("serious", None, None),
                  Violation("moderate", Some(0), Some(0)),
                  Violation("null", Some(4), Some(4))>>, None),
      Completed("/50", 50, 1, <<Violation("serious", Some(1), Some(1))>>,
                Analysis(Some(90),
                         Impact(Some("high"), Some(100), Some(40),
                                <<"checkout", "search">>),
                         Plan(Effort(Some(1), Some(0), Some(0)),
                              <<Issue("ab", "c"), Issue("x", "y")>>))),
      Completed("/40", 40, 1, <<>>,
                Analysis(Some(0),
                         Impact(Some("medium"), None, None,
                                <<"search", "login", "forms", "checkout">>),
                         Plan(Effort(Some(2), Some(1), Some(1)),
                              <<Issue("a", "bc"), Issue("x", "y"),
                                Issue("p", "q")>>))),
      Completed("/70", 70, 2, <<>>,
                Analysis(None,
                         Impact(Some("low"), Some(50), Some(5), <<"forms">>),
                         Plan(None,
                              <<Issue("r", "s"), Issue("t", "u"),
                                Issue("v", "w")>>))),
      Completed("/20", 20, 0, <<>>,
                Analysis(None,
                         Impact(None, None, None, <<"login", "login", "search">>),
                         None)),
      Completed("/30", 30, 0, <<>>, Analysis(None, None, None)) }

InitAgg ==
    /\ NormIdle
    /\ DiscoveryIdle
    /\ TwoIdle
    /\ ScanIdle
    /\ ScoreIdle
    /\ LateIdle
    /\ aggIn \in UNION {[1..k -> Menu] : k \in 0..MaxResults}
    /\ report = <<>>
    /\ aggPc = "call"

\* the call aggregateResults(aggIn)
AggregateCall ==
    /\ aggPc = "call"
    /\ report' = aggregateResults(aggIn)
    /\ aggPc' = "returned"
    /\ UNCHANGED <<nvars, dvars, cvars, svars, tvars, scanvars, scorevars, latevars,
                   aggIn>>

NextAgg == AggregateCall

SpecAgg == InitAgg /\ [][NextAgg]_vars

-----------------------------------------------------------------------------
(* The report against the results it is made of *)

\* the results that completed, and of them those that carry an annotation
CompletedAt == {i \in 1..Len(aggIn) : aggIn[i].status = "completed"}
AnnotatedAt == {i \in CompletedAt : aggIn[i].enhancedAnalysis # <<>>}

\* C24: the score of the report is the mean of the scores of the pages
\* that completed, rounded to the nearest integer, and 0 when none
\* completed; failed pages are left out of the mean.
C24_MeanOfCompleted ==
    aggPc = "returned" =>
        LET n == Cardinality(CompletedAt)
            sum == SumTo([i \in 1..Len(aggIn) |->
                             IF i \in CompletedAt THEN aggIn[i].summary.score
                             ELSE 0], Len(aggIn))
        IN  IF n = 0 THEN report.score = 0
            ELSE /\ 2 * n * report.score <= 2 * sum + n
                 /\ 2 * n * (report.score + 1) > 2 * sum + n

\* C25: totalViolations and totalPasses are the sums of the counts of the
\* completed pages only, totalScans is the number of results and equals
\* completedScans + failedScans, and pageResults has one entry for each
\* result, in the order of the results.
C25_TotalsAndPages ==
    aggPc = "returned" =>
        /\ report.totalViolations =
              SumTo([i \in 1..Len(aggIn) |->
                        IF i \in CompletedAt
                        THEN aggIn[i].summary.violationCount ELSE 0], Len(aggIn))
        /\ report.totalPasses =
              SumTo([i \in 1..Len(aggIn) |->
                        IF i \in CompletedAt
                        THEN aggIn[i].summary.passCount ELSE 0], Len(aggIn))
        /\ report.totalScans = Len(aggIn)
        /\ report.totalScans = report.completedScans + report.failedScans
        /\ report.completedScans = Cardinality(CompletedAt)
        /\ Len(report.pageResults) = Len(aggIn)
        /\ \A i \in 1..Len(aggIn) :
              /\ report.pageResults[i].url = aggIn[i].url
              /\ report.pageResults[i].status = aggIn[i].status
              /\ report.pageResults[i].basicScore = aggIn[i].summary.score
              /\ report.pageResults[i].violations = aggIn[i].summary.violationCount

\* a failed scan between two completed ones that have violations
C25_Witness ==
    /\ aggPc = "returned"
    /\ Len(aggIn) = 3
    /\ aggIn[1].url = "/60" /\ aggIn[2].status = "failed" /\ aggIn[3].url = "/50"
    /\ report.totalViolations = 3
    /\ report.totalPasses = 2
    /\ report.failedScans = 1

\* the node count of a violation where it has one: nodeCount, else the
\* length of nodes
RefNodeCount(v) ==
    IF v.nodeCount # <<>> THEN v.nodeCount
    ELSE v.nodes

\* C26: for each severity, violationsBySeverity is the sum, over the
\* violations of that severity on completed pages, of the node count of the
\* violation, or of 1 where the violation has no node count; a node count
\* that is there counts as it is, 0 included.
C26_ByNodeCount ==
    aggPc = "returned" =>
        \A sev \in {"critical", "serious", "moderate", "minor"} :
            report.violationsBySeverity[sev] =
                SumTo([i \in 1..Len(aggIn) |->
                          IF i \in CompletedAt
                          THEN SumTo([k \in 1..Len(aggIn[i].violations) |->
                                         LET v == aggIn[i].violations[k]
                                         IN  IF v.impact # sev THEN 0
                                             ELSE IF RefNodeCount(v) = <<>> THEN 1
                                             ELSE RefNodeCount(v)[1]],
                                     Len(aggIn[i].violations))
                          ELSE 0], Len(aggIn))

\* C27: aggregateResults returns a report for any results; of no results
\* every count and the score are 0; with no annotated page
\* hasEnhancedAnalysis is false and businessImpact and remediationPlan are
\* null, and with an annotated page all three are there.
C27_AlwaysAReport ==
    aggPc = "returned" =>
        /\ DOMAIN report =
              {"totalScans", "completedScans", "failedScans", "score",
               "totalViolations", "totalPasses", "violationsBySeverity",
               "hasEnhancedAnalysis", "businessImpact", "remediationPlan",
               "pageResults"}
        /\ aggIn = <<>> =>
              /\ report.totalScans = 0 /\ report.completedScans = 0
              /\ report.failedScans = 0 /\ report.score = 0
              /\ report.totalViolations = 0 /\ report.totalPasses = 0
              /\ \A sev \in DOMAIN report.violationsBySeverity :
                    report.violationsBySeverity[sev] = 0
              /\ report.pageResults = <<>>
        /\ (\A i \in 1..Len(aggIn) : aggIn[i].enhancedAnalysis = <<>>) =>
              /\ report.hasEnhancedAnalysis = FALSE
              /\ report.businessImpact = <<>>
              /\ report.remediationPlan = <<>>
        /\ (\E i \in 1..Len(aggIn) : aggIn[i].enhancedAnalysis # <<>>) =>
              /\ report.hasEnhancedAnalysis = TRUE
              /\ report.businessImpact # <<>>
              /\ report.remediationPlan # <<>>

\* the report of failed scans only ...
C27_Witness ==
    /\ aggPc = "returned"
    /\ Len(aggIn) = 2
    /\ \A i \in 1..2 : aggIn[i].status = "failed"
    /\ report.score = 0
    /\ report.businessImpact = <<>>

\* the priority 1 issues of the annotated pages among the first n results
RECURSIVE RefIssues(_)
RefIssues(n) ==
    IF n = 0 THEN <<>>
    ELSE RefIssues(n - 1) \o
         (IF n \in AnnotatedAt /\ aggIn[n].enhancedAnalysis[1].remediationPlan # <<>>
          THEN aggIn[n].enhancedAnalysis[1].remediationPlan[1].priority1
          ELSE <<>>)

\* of the first n issues, those no earlier issue equals in title and in
\* description
RECURSIVE RefFirstSeen(_, _)
RefFirstSeen(all, n) ==
    IF n = 0 THEN <<>>
    ELSE IF \E j \in 1..(n - 1) : /\ all[j].title = all[n].title
                                  /\ all[j].description = all[n].description
         THEN RefFirstSeen(all, n - 1)
         ELSE Append(RefFirstSeen(all, n - 1), all[n])

\* C28: the issues of the remediation plan are the priority 1 issues with
\* those dropped that equal an earlier one in both title and description,
\* in first-seen order, the first 5 of them.
C28_DedupByPair ==
    (aggPc = "returned" /\ report.remediationPlan # <<>>) =>
        LET all == RefIssues(Len(aggIn))
            firsts == RefFirstSeen(all, Len(all))
        IN  report.remediationPlan[1].topPriority1Issues =
                SubSeq(firsts, 1, IF Len(firsts) < 5 THEN Len(firsts) ELSE 5)

\* the count `field` of the effort of result i, 0 if there is none
RefEffort(i, field) ==
    IF i \notin AnnotatedAt THEN 0
    ELSE LET plan == aggIn[i].enhancedAnalysis[1].remediationPlan
         IN  IF plan = <<>> THEN 0
             ELSE IF plan[1].estimatedEffort = <<>> THEN 0
             ELSE IF plan[1].estimatedEffort[1][field] = <<>> THEN 0
             ELSE plan[1].estimatedEffort[1][field][1]

\* C29: the quick, medium and complex totals of the remediation plan are
\* the sums of the counts of the pages, and estimatedTotalHours is exactly
\* quick x 0.5 + medium x 4 + complex x 16 (here doubled on both sides).
C29_ExactHours ==
    (aggPc = "returned" /\ report.remediationPlan # <<>>) =>
        LET plan == report.remediationPlan[1]
            sum(field) == SumTo([i \in 1..Len(aggIn) |-> RefEffort(i, field)],
                                Len(aggIn))
        IN  /\ plan.totalQuickFixes = sum("quickFixes")
            /\ plan.totalMediumFixes = sum("mediumFixes")
            /\ plan.totalComplexFixes = sum("complexFixes")
            /\ 2 * plan.estimatedTotalHours =
                  plan.totalQuickFixes + 8 * plan.totalMediumFixes
                      + 32 * plan.totalComplexFixes

\* the risk level of result i, "" if it has none
RefRisk(i) ==
    LET impact == aggIn[i].enhancedAnalysis[1].businessImpact
    IN  IF impact = <<>> THEN ""
        ELSE IF impact[1].riskLevel = <<>> THEN "" ELSE impact[1].riskLevel[1]

\* the upper bound of the cost estimate of result i, 0 if it has none
RefCost(i) ==
    IF i \notin AnnotatedAt THEN 0
    ELSE LET impact == aggIn[i].enhancedAnalysis[1].businessImpact
         IN  IF impact = <<>> THEN 0
             ELSE IF impact[1].estimatedRemediationCost = <<>> THEN 0
             ELSE IF impact[1].estimatedRemediationCost[1].max = <<>> THEN 0
             ELSE impact[1].estimatedRemediationCost[1].max[1]

RefAreasOf(i) ==
    IF i \notin AnnotatedAt \/ aggIn[i].enhancedAnalysis[1].businessImpact = <<>>
    THEN <<>>
    ELSE aggIn[i].enhancedAnalysis[1].businessImpact[1].businessAreas

\* the business areas of the first n results, one after another
RECURSIVE RefAreas(_)
RefAreas(n) == IF n = 0 THEN <<>> ELSE RefAreas(n - 1) \o RefAreasOf(n)

\* C31: topBusinessAreas lists at most 3 business areas, ranked by the
\* number of pages that mention the area, a page counting once for an area,
\* and among areas of equal count by which was seen first.
C31_TopAreasByPages ==
    (aggPc = "returned" /\ report.businessImpact # <<>>) =>
        LET top == report.businessImpact[1].topBusinessAreas
            all == RefAreas(Len(aggIn))
            areas == {all[k] : k \in 1..Len(all)}
            mentions(a) ==
                Cardinality({i \in 1..Len(aggIn) :
                               \E k \in 1..Len(RefAreasOf(i)) : RefAreasOf(i)[k] = a})
            first(a) == CHOOSE k \in 1..Len(all) :
                            all[k] = a /\ \A j \in 1..(k - 1) : all[j] # a
            ahead(a, b) == \/ mentions(a) > mentions(b)
                           \/ mentions(a) = mentions(b) /\ first(a) < first(b)
        IN  /\ Len(top) = (IF Cardinality(areas) < 3 THEN Cardinality(areas) ELSE 3)
            /\ \A k \in 1..Len(top) :
                  /\ top[k].area \in areas
                  /\ top[k].affectedPages = mentions(top[k].area)
                  /\ \A j \in (k + 1)..Len(top) : ahead(top[k].area, top[j].area)
                  /\ \A a \in areas \ {top[j].area : j \in 1..Len(top)} :
                        ahead(top[k].area, a)

-----------------------------------------------------------------------------
(* The threshold of the action (README.md, index.js): getInputs reads it,  *)
(* setOutputs and evaluateSuccess compare the score of the run with it.    *)

\* README.md line 89: thresholds and scores are of 0..100
MaxThreshold == 100

\* line 556: the threshold of a run that supplies none
DefaultThreshold == 80

\* the value of a decimal digit, 10 of any other character
DigitValue(c) ==
    IF \E d \in 1..10 : DigitChars[d] = c
    THEN (CHOOSE d \in 1..10 : DigitChars[d] = c) - 1
    ELSE 10

\* the digits a string starts with, read as a number from `acc` on
RECURSIVE ParseDigits(_, _)
ParseDigits(str, acc) ==
    IF str = <<>> \/ DigitValue(Head(str)) = 10 THEN acc
    ELSE ParseDigits(Tail(str), 10 * acc + DigitValue(Head(str)))

\* parseInt(str) of a trimmed string: the number its leading digits spell,
\* negated after a '-', and NaN (None) if it starts with no digit
ParseInt(str) ==
    LET negative == str # <<>> /\ Head(str) = "-"
        signed == str # <<>> /\ Head(str) \in {"-", "+"}
        body == IF signed THEN Tail(str) ELSE str
    IN  IF body = <<>> \/ DigitValue(Head(body)) = 10 THEN None
        ELSE Some(IF negative THEN 0 - ParseDigits(body, 0)
                  ELSE ParseDigits(body, 0))

\* line 556: parseInt(core.getInput('threshold')) || 80
Threshold(parsed) == OrElse(parsed, DefaultThreshold)

\* Boolean.prototype.toString
BoolString(b) == IF b THEN "true" ELSE "false"

\* what a workflow can give as threshold: nothing, a number of 0..100 in
\* decimal, or a word
ThresholdInputs ==
    {<<>>, <<"h", "i", "g", "h">>} \cup {Digits(t) : t \in 0..MaxThreshold}

InitOut ==
    /\ NormIdle
    /\ DiscoveryIdle
    /\ TwoIdle
    /\ ScanIdle
    /\ ScoreIdle
    /\ AggIdle
    /\ RunIdle
    /\ SrvIdle
    /\ LimIdle
    /\ thresholdInput \in ThresholdInputs
    /\ summaryScore \in 0..MaxThreshold
    /\ inputsThreshold = 0
    /\ successOutput = ""
    /\ success = FALSE
    /\ outPc = "inputs"

\* getInputs, line 556
GetInputs ==
    /\ outPc = "inputs"
    /\ inputsThreshold' = Threshold(ParseInt(thresholdInput))
    /\ outPc' = "outputs"
    /\ UNCHANGED <<outOthers, thresholdInput, summaryScore, successOutput, success>>

\* setOutputs, line 1278
SetOutputs ==
    /\ outPc = "outputs"
    /\ successOutput' = BoolString(summaryScore >= inputsThreshold)
    /\ outPc' = "evaluate"
    /\ UNCHANGED <<outOthers, thresholdInput, summaryScore, inputsThreshold, success>>

\* evaluateSuccess, lines 1451-1453
EvaluateSuccess ==
    /\ outPc = "evaluate"
    /\ success' = (summaryScore >= inputsThreshold)
    /\ outPc' = "done"
    /\ UNCHANGED <<outOthers, thresholdInput, summaryScore, inputsThreshold, successOutput>>

NextOut == GetInputs \/ SetOutputs \/ EvaluateSuccess

SpecOut == InitOut /\ [][NextOut]_vars

\* C32: for every threshold t of 0..100 that the workflow supplies and
\* every score s, the output 'success' and evaluateSuccess are true exactly
\* if s >= t; with no threshold supplied, exactly if s >= 80.
C32_SuccessIffAtThreshold ==
    outPc = "done" =>
        LET t == IF thresholdInput = <<>> THEN 80
                 ELSE CHOOSE n \in 0..MaxThreshold : Digits(n) = thresholdInput
        IN  (thresholdInput = <<>>
                \/ \E n \in 0..MaxThreshold : Digits(n) = thresholdInput) =>
                /\ success <=> summaryScore >= t
                /\ successOutput = "true" <=> summaryScore >= t

-----------------------------------------------------------------------------
(* run of the action (README.md, index.js lines 601-671): the steps in     *)
(* their order, each returning or throwing, the catch block and the        *)
(* finally block.                                                          *)

\* lines 603-653: the steps of the try block, in order
RunSteps ==
    <<"validate", "setup", "health", "discover", "scans", "aggregate",
      "reports", "outputs", "comment", "upload", "usage", "evaluate">>

\* the steps an error can leave: validateApiKeyAndAccount,
\* commentOnPullRequest, uploadArtifacts and reportUsageToSaaS catch their
\* own, executeScans catches per page, and aggregateResults, setOutputs and
\* evaluateSuccess call nothing that fails
CanThrow(step) == step \in {"setup", "health", "discover", "reports"}

\* lines 638, 643, 648: the steps behind a condition
Wanted(step) ==
    CASE step = "comment" -> runFlags.commentPr
      [] step = "upload"  -> runFlags.uploadArtifacts
      [] step = "usage"   -> sessionToken
      [] OTHER            -> TRUE

\* the step after `step`, "finally" after the last
StepAfter(step) ==
    LET k == CHOOSE i \in 1..Len(RunSteps) : RunSteps[i] = step
    IN  IF k = Len(RunSteps) THEN "finally" ELSE RunSteps[k + 1]

\* the error of the cleanup thrown on to the caller of run
CleanupError_Thrown == "raised"

\* lines 867-869: the catch block of cleanupSelfHostedScanner only warns
CleanupError == "returned"

InitRun ==
    /\ NormIdle
    /\ DiscoveryIdle
    /\ TwoIdle
    /\ ScanIdle
    /\ ScoreIdle
    /\ AggIdle
    /\ OutIdle
    /\ SrvIdle
    /\ LimIdle
    /\ runPc = RunSteps[1]
    /\ runLog = <<>>
    /\ runFlags \in [commentPr : BOOLEAN, uploadArtifacts : BOOLEAN,
                     failOnViolations : BOOLEAN]
    /\ sessionToken = FALSE
    /\ cleanupCalls = 0
    /\ setFailedCalls = 0
    /\ runOutcome = "pending"

InTry == \E i \in 1..Len(RunSteps) : RunSteps[i] = runPc

\* line 605: validateApiKeyAndAccount, which returns whether the key was
\* validated (lines 762-763) or not (lines 774-790)
RunValidate ==
    /\ runPc = "validate"
    /\ \E validated \in BOOLEAN : sessionToken' = validated
    /\ runLog' = Append(runLog, runPc)
    /\ runPc' = StepAfter(runPc)
    /\ UNCHANGED <<runOthers, runFlags, cleanupCalls, setFailedCalls, runOutcome>>

\* a step of lines 612-650 that is invoked and returns
RunStepReturns ==
    /\ InTry
    /\ runPc \notin {"validate", "evaluate"}
    /\ Wanted(runPc)
    /\ runLog' = Append(runLog, runPc)
    /\ runPc' = StepAfter(runPc)
    /\ UNCHANGED <<runOthers, runFlags, sessionToken, cleanupCalls,
                   setFailedCalls, runOutcome>>

\* a step of lines 612-632 that is invoked and throws
RunStepThrows ==
    /\ InTry
    /\ CanThrow(runPc)
    /\ runLog' = Append(runLog, runPc)
    /\ runPc' = "catch"
    /\ UNCHANGED <<runOthers, runFlags, sessionToken, cleanupCalls,
                   setFailedCalls, runOutcome>>

\* lines 638, 643, 648: a step whose condition is false
RunStepSkipped ==
    /\ InTry
    /\ ~Wanted(runPc)
    /\ runPc' = StepAfter(runPc)
    /\ UNCHANGED <<runOthers, runLog, runFlags, sessionToken, cleanupCalls,
                   setFailedCalls, runOutcome>>

\* lines 653-662: evaluateSuccess, and setFailed for a score below the
\* threshold when fail-on-violations is set
RunEvaluate ==
    /\ runPc = "evaluate"
    /\ \E passed \in BOOLEAN :
          setFailedCalls' =
              IF ~passed /\ runFlags.failOnViolations
              THEN setFailedCalls + 1 ELSE setFailedCalls
    /\ runLog' = Append(runLog, runPc)
    /\ runPc' = StepAfter(runPc)
    /\ UNCHANGED <<runOthers, runFlags, sessionToken, cleanupCalls, runOutcome>>

\* lines 664-666: the catch block
RunCatch ==
    /\ runPc = "catch"
    /\ setFailedCalls' = setFailedCalls + 1
    /\ runLog' = Append(runLog, "setFailed")
    /\ runPc' = "finally"
    /\ UNCHANGED <<runOthers, runFlags, sessionToken, cleanupCalls, runOutcome>>

\* lines 667-670 and 854-870: the finally block awaits
\* cleanupSelfHostedScanner, whose docker-compose down succeeds or fails
RunFinally ==
    /\ runPc = "finally"
    /\ cleanupCalls' = cleanupCalls + 1
    /\ runLog' = Append(runLog, "cleanup")
    /\ \E down \in {"ok", "error"} :
          runOutcome' = IF down = "ok" THEN "returned" ELSE CleanupError
    /\ runPc' = "settled"
    /\ UNCHANGED <<runOthers, runFlags, sessionToken, setFailedCalls>>

NextRun ==
    \/ RunValidate
    \/ RunStepReturns
    \/ RunStepThrows
    \/ RunStepSkipped
    \/ RunEvaluate
    \/ RunCatch
    \/ RunFinally

SpecRun == InitRun /\ [][NextRun]_vars

\* C33: in every run, whichever steps fail or succeed, the cleanup of the
\* scanner is invoked exactly once, after all other steps, and run does not
\* raise, also when the cleanup fails.
C33_CleanupOnceAtEnd ==
    /\ cleanupCalls <= 1
    /\ \A k \in 1..Len(runLog) : runLog[k] = "cleanup" => k = Len(runLog)
    /\ runOutcome # "raised"
    /\ runPc = "settled" =>
          /\ cleanupCalls = 1
          /\ runLog # <<>> /\ runLog[Len(runLog)] = "cleanup"
          /\ runOutcome = "returned"

\* a run whose health check threw: setFailed, then the cleanup
C33_Witness ==
    /\ runPc = "settled"
    /\ runLog = <<"validate", "setup", "health", "setFailed", "cleanup">>
    /\ cleanupCalls = 1
    /\ runOutcome = "returned"

-----------------------------------------------------------------------------
(* The scanner service (src/scanner-service.js): the routes POST /scan,    *)
(* POST /scan-sync, POST /scan-batch and GET /scan/:scanId, performScan    *)
(* and getBrowser.  A handler runs to its first await in one step; every   *)
(* awaited call of a scan then settles in a step of its own, so that the   *)
(* scans under way interleave as the event loop lets them.                 *)

MaxScans == 2

BrowserTypes == {"chromium", "firefox"}

\* a request: its route and the browser type asked for each of its URLs
Request(route, types) == [route |-> route, types |-> types]

Requests ==
    {Request(route, <<b>>) : route \in {"scan", "sync"}, b \in BrowserTypes}
        \cup {Request("batch", types) :
                types \in UNION {[1..k -> BrowserTypes] : k \in 2..MaxScans}}

\* the scans of the requests `reqs`, numbered from request `from` on
RECURSIVE ScansOf(_, _)
ScansOf(reqs, from) ==
    IF reqs = <<>> THEN <<>>
    ELSE [k \in 1..Len(Head(reqs).types) |->
             [route |-> Head(reqs).route, browser |-> Head(reqs).types[k],
              request |-> from]]
         \o ScansOf(Tail(reqs), from + 1)

\* the requests a service gets: at most MaxScans scans in all
Workloads ==
    {w \in UNION {[1..k -> Requests] : k \in 1..MaxScans} :
        Len(ScansOf(w, 1)) <= MaxScans}

InitSrv ==
    /\ NormIdle
    /\ DiscoveryIdle
    /\ TwoIdle
    /\ ScanIdle
    /\ ScoreIdle
    /\ AggIdle
    /\ OutIdle
    /\ RunIdle
    /\ LimIdle
    /\ \E w \in Workloads : srvScans = ScansOf(w, 1)
    /\ srvNext = 1
    /\ scanStatus = [id \in 1..Len(srvScans) |-> "none"]
    /\ scanAt = [id \in 1..Len(srvScans) |-> "new"]
    /\ browsers = {}
    /\ launched = [b \in BrowserTypes |-> 0]
    /\ contexts = {}
    /\ answered = {}
    /\ lastGet = <<>>

\* the entry of a scan id left as it was
RecordRunning_Later(status, id) == status

\* lines 187-192: the entry 'running', set before the first await
RecordRunning(status, id) == [status EXCEPT ![id] = "running"]

\* the entry of a scan whose try block threw left as it was
RecordFailed_Not(status, id) == status

\* lines 286-298, and 73-76 and 159-163: the entry 'failed'
RecordFailed(status, id) == [status EXCEPT ![id] = "failed"]

\* lines 196 and 582-603: performScan up to the await of getBrowser, which
\* launches a browser unless one of the type is stored
Started(id) == IF srvScans[id].browser \in browsers THEN "context" ELSE "launching"

\* a route takes its next request: lines 53-90, 105-131 and 134-179.  The
\* handler calls performScan for each URL, which runs to its first await,
\* and the routes /scan and /scan-batch then answer with the scan ids.
Accept ==
    LET mine == {id \in 1..Len(srvScans) : srvScans[id].request = srvNext}
        RECURSIVE RecordAll(_, _)
        RecordAll(status, id) ==
            IF id > Len(srvScans) THEN status
            ELSE RecordAll(IF id \in mine THEN RecordRunning(status, id)
                           ELSE status, id + 1)
    IN  /\ mine # {}
        /\ scanStatus' = RecordAll(scanStatus, 1)
        /\ scanAt' = [id \in 1..Len(srvScans) |->
                         IF id \in mine THEN Started(id) ELSE scanAt[id]]
        /\ answered' = answered \cup {id \in mine : srvScans[id].route # "sync"}
        /\ srvNext' = srvNext + 1
        /\ UNCHANGED <<srvOthers, srvScans, browsers, launched, contexts, lastGet>>

\* lines 286-299: the catch block of performScan records 'failed' and
\* throws the error on
Throws(id) ==
    /\ scanStatus' = RecordFailed(scanStatus, id)
    /\ scanAt' = [scanAt EXCEPT ![id] = "rejected"]

\* lines 589-600: the launch of getBrowser settles; the browser is stored
\* and performScan asks it for a context
LaunchSettles(id) ==
    /\ scanAt[id] = "launching"
    /\ \/ /\ browsers' = browsers \cup {srvScans[id].browser}
          /\ launched' = [launched EXCEPT ![srvScans[id].browser] = @ + 1]
          /\ scanAt' = [scanAt EXCEPT ![id] = "context"]
          /\ UNCHANGED scanStatus
       \/ /\ Throws(id)
          /\ UNCHANGED <<browsers, launched>>
    /\ UNCHANGED <<srvOthers, srvScans, srvNext, contexts, answered, lastGet>>

\* lines 197-201: browser.newContext settles
ContextSettles(id) ==
    /\ scanAt[id] = "context"
    /\ \/ /\ contexts' = contexts \cup {id}
          /\ scanAt' = [scanAt EXCEPT ![id] = "navigate"]
          /\ UNCHANGED scanStatus
       \/ /\ Throws(id)
          /\ UNCHANGED contexts
    /\ UNCHANGED <<srvOthers, srvScans, srvNext, browsers, launched, answered,
                   lastGet>>

\* lines 203-216: newPage, goto and waitForTimeout settle
NavigateSettles(id) ==
    /\ scanAt[id] = "navigate"
    /\ \/ /\ scanAt' = [scanAt EXCEPT ![id] = "analyse"]
          /\ UNCHANGED scanStatus
       \/ Throws(id)
    /\ UNCHANGED <<srvOthers, srvScans, srvNext, browsers, launched, contexts,
                   answered, lastGet>>

\* lines 219-275: the rule engine is injected and run, the result is built
\* and, with a session token, annotated (getEnhancedAnalysis catches its
\* own errors)
AnalyseSettles(id) ==
    /\ scanAt[id] = "analyse"
    /\ \/ /\ scanAt' = [scanAt EXCEPT ![id] = "save"]
          /\ UNCHANGED scanStatus
       \/ Throws(id)
    /\ UNCHANGED <<srvOthers, srvScans, srvNext, browsers, launched, contexts,
                   answered, lastGet>>

\* lines 277-281: saveResults settles; the entry 'completed' is set and
\* the context is asked to close
SaveSettles(id) ==
    /\ scanAt[id] = "save"
    /\ \/ /\ scanStatus' = [scanStatus EXCEPT ![id] = "completed"]
          /\ scanAt' = [scanAt EXCEPT ![id] = "close"]
       \/ Throws(id)
    /\ UNCHANGED <<srvOthers, srvScans, srvNext, browsers, launched, contexts,
                   answered, lastGet>>

\* lines 281-284: context.close settles; performScan returns the result
CloseSettles(id) ==
    /\ scanAt[id] = "close"
    /\ \/ /\ contexts' = contexts \ {id}
          /\ scanAt' = [scanAt EXCEPT ![id] = "returned"]
          /\ UNCHANGED scanStatus
       \/ /\ Throws(id)
          /\ UNCHANGED contexts
    /\ UNCHANGED <<srvOthers, srvScans, srvNext, browsers, launched, answered,
                   lastGet>>

\* lines 70-77 and 156-165: the catch of the promise of performScan in the
\* routes /scan and /scan-batch
RouteCatch(id) ==
    /\ scanAt[id] = "rejected"
    /\ srvScans[id].route # "sync"
    /\ scanStatus' = RecordFailed(scanStatus, id)
    /\ scanAt' = [scanAt EXCEPT ![id] = "done"]
    /\ UNCHANGED <<srvOthers, srvScans, srvNext, browsers, launched, contexts,
                   answered, lastGet>>

\* lines 121-130: /scan-sync answers, with the result or with status 500
SyncAnswers(id) ==
    /\ scanAt[id] \in {"returned", "rejected"}
    /\ srvScans[id].route = "sync"
    /\ answered' = IF scanAt[id] = "returned" THEN answered \cup {id} ELSE answered
    /\ scanAt' = [scanAt EXCEPT ![id] = "done"]
    /\ UNCHANGED <<srvOthers, srvScans, srvNext, scanStatus, browsers, launched,
                   contexts, lastGet>>

\* lines 93-102: GET /scan/:scanId for an id a POST answered with
GetScan ==
    /\ \E id \in answered :
          lastGet' = <<[scanId |-> id,
                        code |-> IF scanStatus[id] = "none" THEN 404 ELSE 200,
                        status |-> scanStatus[id]]>>
    /\ UNCHANGED <<srvOthers, srvScans, srvNext, scanStatus, scanAt, browsers,
                   launched, contexts, answered>>

\* the next step of the scan `id`
Settle(id) ==
    /\ id \in DOMAIN scanAt
    /\ \/ LaunchSettles(id)
       \/ ContextSettles(id)
       \/ NavigateSettles(id)
       \/ AnalyseSettles(id)
       \/ SaveSettles(id)
       \/ CloseSettles(id)
       \/ RouteCatch(id)
       \/ SyncAnswers(id)

NextSrv ==
    \/ Accept
    \/ GetScan
    \/ \E id \in 1..MaxScans : Settle(id)

SpecSrv == InitSrv /\ [][NextSrv]_vars

\* every request is taken and every awaited call of a scan settles
FairSpecSrv ==
    SpecSrv /\ WF_vars(Accept) /\ \A id \in 1..MaxScans : WF_vars(Settle(id))

-----------------------------------------------------------------------------
(* Properties of the scanner service *)

\* C34: the status recorded for a scan id only moves from running to
\* completed or from running to failed: a completed entry is never
\* overwritten by a failed one, nor a failed entry by a completed one.
C34_StatusOnlyForward ==
    [][\A id \in DOMAIN scanStatus :
          /\ scanStatus[id] = "completed" => scanStatus'[id] = "completed"
          /\ scanStatus[id] = "failed" => scanStatus'[id] = "failed"]_vars

\* performScan of the scan id has returned or thrown
Settled(id) == scanAt[id] \in {"returned", "rejected", "done"}

\* C35: every browser context performScan opened is closed when
\* performScan settles, on the success path and on every failure path.
C35_ContextsClosed ==
    \A id \in DOMAIN scanAt : Settled(id) => id \notin contexts

\* C36: the service launches at most one browser of each type, also when
\* scans start concurrently.
C36_OneBrowserPerType ==
    \A b \in DOMAIN launched : launched[b] <= 1

\* C38: once a POST has answered with a scan id, GET /scan/:scanId for that
\* id never answers 404: the id has an entry from before the answer on,
\* and entries are not removed.
C38_NeverNotFound ==
    /\ [](\A id \in answered : scanStatus[id] # "none")
    /\ [](lastGet # <<>> => lastGet[1].code # 404)
    /\ [][\A id \in DOMAIN scanStatus :
            scanStatus[id] # "none" => scanStatus'[id] # "none"]_vars

\* a GET that found the scan still running
C38_Witness ==
    /\ lastGet # <<>>
    /\ lastGet[1].code = 200
    /\ lastGet[1].status = "running"
    /\ scanAt[lastGet[1].scanId] = "launching"

\* C39: if every awaited step of a scan returns or throws, every scan
\* started through a route gets a terminal status and keeps one; in a
\* batch, the failure of one scan does not keep the others from theirs.
C39_EveryScanEnds ==
    <>[](\A id \in DOMAIN scanStatus : scanStatus[id] \in {"completed", "failed"})

\* a batch of two of which the first failed and the second completed
C39_Witness ==
    /\ Len(srvScans) = 2
    /\ \A id \in 1..2 : srvScans[id].route = "batch"
    /\ scanStatus = <<"failed", "completed">>
    /\ scanAt = <<"done", "returned">>

-----------------------------------------------------------------------------
(* The account limit of the action (README.md, index.js): the constructor  *)
(* builds the PageDiscovery, validateApiKeyAndAccount applies the limit of  *)
(* the account, and the action's discoverPages calls                       *)
(* PageDiscovery.discoverPages, whose steps are those of Spec.             *)

\* line 782: maxPagesPerScan of the offline mode
OfflineLimit == 5

\* a string input, and a number put in its place
InputString(str) == [t |-> "string", s |-> str, n |-> 0]
InputNumber(n) == [t |-> "number", s |-> <<>>, n |-> n]

\* parseInt(v), and v as `>` reads it, for a number or a string of digits
NumberOf(v) == IF v.t = "number" THEN v.n ELSE ParseInt(v.s)[1]

\* the input max-pages of a workflow
MaxPagesInputs == {Digits(3), Digits(DefaultMaxPages)}

\* what validate-key answers: an error, or an account with a limit (0: no
\* limit)
Validations ==
    {[ok |-> FALSE, limit |-> 0]} \cup [ok : {TRUE}, limit : {0, 2, 20}]

\* the strategy and the scan paths of the workflow, and the site
ActionCalls ==
    {Call(0, str, Options(0, NoSeeds, PathsArray(<<>>)), NoSite, NoWorld) :
        str \in {"single", "bogus"}}
    \cup
    {Call(0, "paths", Options(0, NoSeeds, PathsArray(a)), NoSite, NoWorld) :
        a \in {<<>>, <<JsStr(<<"/", "a">>)>>,
               <<JsStr(<<"/", "c">>), JsStr(<<"/">>), JsStr(<<"/", "b">>),
                 JsStr(<<"/", "a">>)>>}}
    \cup
    {Call(0, "crawl", Options(0, NoSeeds, PathsArray(<<>>)), st, NoWorld) :
        st \in {x \in SmallSites \cup LargeSites :
                  x.shape \in {"chain", "tree"} /\ x.fail = {}}}
    \cup
    {Call(0, "sitemap", Options(0, NoSeeds, PathsArray(<<>>)), NoSite, w) :
        w \in {v \in WorldsOfChildren : v[7] = 5}
                 \cup {v \in WorldsOfCandidates : \A d \in 2..4 : v[d] = 2}}

\* lines 519-523: the constructor has read the inputs and built the
\* PageDiscovery with maxPages: parseInt(this.inputs.maxPages)
InitLimit ==
    /\ NormIdle
    /\ TwoIdle
    /\ ScanIdle
    /\ ScoreIdle
    /\ AggIdle
    /\ OutIdle
    /\ RunIdle
    /\ SrvIdle
    /\ validation \in Validations
    /\ \E m \in MaxPagesInputs :
          /\ inputsMaxPages = InputString(m)
          /\ thisMaxPages = (IF ParseInt(m)[1] = 0 THEN DefaultMaxPages
                             ELSE ParseInt(m)[1])
    /\ \E c \in ActionCalls :
          /\ strategy = c.strategy
          /\ options = c.options
          /\ site = c.site
          /\ world = c.world
    /\ accountLimit = 0
    /\ pagesToScan = <<>>
    /\ limPc = "validate"
    /\ pc = "idle"
    /\ pages = <<>>
    /\ result = <<>>
    /\ outcome = "pending"
    /\ caught = FALSE
    /\ toVisit = <<>>
    /\ visited = {}
    /\ discovered = <<>>
    /\ crawlMax = 0
    /\ pageFetches = <<>>
    /\ candIdx = 0
    /\ fetched = <<>>
    /\ stack = <<>>

\* lines 739-791: validateApiKeyAndAccount.  A validated key with a limit
\* below max-pages lowers this.inputs.maxPages; a failed validation sets
\* the offline limits and leaves the inputs alone.
ValidateApiKeyAndAccount ==
    /\ limPc = "validate"
    /\ IF validation.ok
       THEN /\ accountLimit' = validation.limit
            /\ inputsMaxPages' =
                  IF validation.limit > 0
                        /\ NumberOf(inputsMaxPages) > validation.limit
                  THEN InputNumber(validation.limit)
                  ELSE inputsMaxPages
       ELSE /\ accountLimit' = OfflineLimit
            /\ UNCHANGED inputsMaxPages
    /\ limPc' = "discover"
    /\ UNCHANGED <<limOthers, dvars, validation, pagesToScan>>

\* lines 717-727: the action's discoverPages calls
\* this.pageDiscovery.discoverPages with maxPages: parseInt(this.inputs.maxPages)
ActionDiscover ==
    /\ limPc = "discover"
    /\ options' = [options EXCEPT !.maxPages = NumberOf(inputsMaxPages)]
    /\ pc' = "start"
    /\ limPc' = "discovering"
    /\ UNCHANGED <<limOthers, validation, inputsMaxPages, accountLimit,
                   pagesToScan, strategy, thisMaxPages, site, pages, result,
                   outcome, caught>>

\* lines 729-733: no page is an error, any other list is returned
ActionReturn ==
    /\ limPc = "discovering"
    /\ pc = "done"
    /\ pagesToScan' = result
    /\ limPc' = IF Len(result) = 0 THEN "raised" ELSE "returned"
    /\ UNCHANGED <<limOthers, dvars, validation, inputsMaxPages, accountLimit>>

\* the steps of PageDiscovery.discoverPages but the TypeError of a strategy
\* or options that are null, which the action never passes
NextLimit ==
    \/ ValidateApiKeyAndAccount
    \/ ActionDiscover
    \/ ActionReturn
    \/ DiscoverSingle
    \/ DiscoverUnknown
    \/ DiscoverPaths
    \/ DiscoverCrawl
    \/ CrawlStep
    \/ CrawlReturn
    \/ DiscoverSitemap
    \/ SitemapFetch
    \/ SitemapExhausted
    \/ ParseSkipEntry
    \/ ParseFetchChild
    \/ ParseReturnChild
    \/ ParseReturnPages
    \/ ParseReturnNothing

SpecLimit == InitLimit /\ [][NextLimit]_vars

\* C37: the pages of a run are never more than the account's
\* maxPagesPerScan: with a validated positive limit below max-pages, and
\* with the offline limit of 5 after a failed validation, discovery yields
\* at most that many pages, whatever the strategy.
C37_WithinAccountLimit ==
    (/\ limPc = "returned"
     /\ \/ ~validation.ok
        \/ validation.limit > 0 /\ validation.limit < thisMaxPages)
        => Len(pagesToScan) <= accountLimit

====
